---------------------------- MODULE Spec2Model ----------------------------
(***************************************************************************)
(* Model of the composite-section analysis pipeline of Prontuario_Mixtas:  *)
(* shape primitives (shapes/), section properties (core/section_analysis), *)
(* Navier stresses (core/stress_analysis) and the simplified EC3           *)
(* classification (core/classification_ec3).                               *)
(*                                                                         *)
(* Numbers.  The code computes with Python floats.  The model computes     *)
(* with exact rationals [n |-> numerator, d |-> denominator > 0] in lowest *)
(* terms, so that equalities and threshold comparisons are decided         *)
(* exactly.  The code's tolerance 1e-9 is the rational Tol = 1/TolDen;     *)
(* every comparison against it keeps the strictness (<, <=, >) it has in   *)
(* the code, and the inputs contain values below, on and above Tol.        *)
(* Python's None and float('inf') are the records None, Inf and NegInf.    *)
(***************************************************************************)
EXTENDS Integers, Sequences, FiniteSets, TLC

VARIABLES
    op,          \* which entry point the run exercises
    pc,          \* "call" before the entry point has run, "done" after
    shapes,      \* the list of shape objects passed to the entry point
    args,        \* the other arguments of the call
    result,      \* what the entry point returned (or the error it raised)
    calc,        \* the fields of the SectionPropertiesCalculator instance
    history,     \* what the successive calls with these arguments returned
    session      \* the rest of st.session_state of the application

vars == <<op, pc, shapes, args, result, calc, history, session>>

\* Python's None, float('inf') and float('-inf')
None == [special |-> "None"]
Inf == [special |-> "inf"]
NegInf == [special |-> "-inf"]

-----------------------------------------------------------------------------
(* Bounds of the model *)

\* longest shape list passed to an entry point
MaxShapes == 2
\* denominator of the tolerance: Tol = 1/TolDen stands for the code's 1e-9
TolDen == 4
\* denominator of the thickness tolerance of the classification:
\* 1/ThickTolDen stands for the code's 1e-6 (larger than Tol, as in the code)
ThickTolDen == 2
\* most calls made with the same arguments or on the same instance
MaxCalls == 3
MaxSteps == 3

-----------------------------------------------------------------------------
(* Exact rational arithmetic (Python float arithmetic, without rounding) *)

Abs(i) == IF i < 0 THEN -i ELSE i

RECURSIVE GCD(_, _)
GCD(a, b) == IF b = 0 THEN a ELSE GCD(b, a % b)

\* the rational a/b in lowest terms with a positive denominator (b # 0)
Q(a, b) ==
    LET g == GCD(Abs(a), Abs(b))
        s == IF b < 0 THEN -1 ELSE 1
    IN  [n |-> (s * a) \div g, d |-> (s * b) \div g]

R(i) == [n |-> i, d |-> 1]
Zero == R(0)
One == R(1)

IsNum(x) == x \notin {None, Inf, NegInf}

\* sums, products and comparisons cancel common factors before multiplying
RAdd(x, y) ==
    LET g == GCD(x.d, y.d)
    IN  Q(x.n * (y.d \div g) + y.n * (x.d \div g), (x.d \div g) * y.d)
RNeg(x) == [n |-> -x.n, d |-> x.d]
RSub(x, y) == RAdd(x, RNeg(y))
RMul(x, y) ==
    LET g1 == GCD(Abs(x.n), y.d)
        g2 == GCD(Abs(y.n), x.d)
    IN  Q((x.n \div g1) * (y.n \div g2), (x.d \div g2) * (y.d \div g1))
\* x / y for y # 0
RDiv(x, y) ==
    RMul(x, IF y.n < 0 THEN [n |-> -y.d, d |-> -y.n] ELSE [n |-> y.d, d |-> y.n])
RAbs(x) == [n |-> Abs(x.n), d |-> x.d]
RLt(x, y) ==
    LET g == GCD(x.d, y.d) IN x.n * (y.d \div g) < y.n * (x.d \div g)
RLe(x, y) ==
    LET g == GCD(x.d, y.d) IN x.n * (y.d \div g) <= y.n * (x.d \div g)
RGt(x, y) == RLt(y, x)
RGe(x, y) == RLe(y, x)
RSq(x) == RMul(x, x)
RCube(x) == RMul(x, RMul(x, x))
RMin(x, y) == IF RLe(x, y) THEN x ELSE y
RMax(x, y) == IF RGe(x, y) THEN x ELSE y

\* the tolerance the code writes 1e-9
Tol == Q(1, TolDen)

\* comparisons of a Python float that may be +inf or -inf with a finite number
FLt(x, y) ==
    IF x = Inf THEN FALSE ELSE IF x = NegInf THEN TRUE ELSE RLt(x, y)
FLe(x, y) ==
    IF x = Inf THEN FALSE ELSE IF x = NegInf THEN TRUE ELSE RLe(x, y)
FGt(x, y) ==
    IF x = Inf THEN TRUE ELSE IF x = NegInf THEN FALSE ELSE RGt(x, y)

\* x / n for a finite x and a divisor n > 0 that may be +inf (x / inf = 0.0)
FDiv(x, n) == IF n = Inf THEN Zero ELSE RDiv(x, n)

\* the exact square root of a rational that is a perfect square
ISqrt(i) == CHOOSE k \in 0..i : k * k = i
IsSquare(i) == \E k \in 0..i : k * k = i
RSqrt(x) == [n |-> ISqrt(x.n), d |-> ISqrt(x.d)]

-----------------------------------------------------------------------------
(* shapes/steel_plate.py *)

Pt(x, y) == [x |-> x, y |-> y]

ValueError == [error |-> "ValueError"]
AttributeError == [error |-> "AttributeError"]
IsError(x) == "error" \in DOMAIN x

\* SteelPlate.__init__ rejecting only negative dimensions
SteelPlate_AcceptsZero(width, height, cg_x, cg_y) ==
    IF RLt(width, Zero) \/ RLt(height, Zero)
    THEN ValueError
    ELSE [cls |-> "SteelPlate", width |-> width, height |-> height,
          cg_x |-> cg_x, cg_y |-> cg_y, material |-> "steel"]

\* SteelPlate.__init__: an axis-aligned plate, or ValueError
SteelPlate(width, height, cg_x, cg_y) ==
    IF RLe(width, Zero) \/ RLe(height, Zero)
    THEN ValueError
    ELSE [cls |-> "SteelPlate", width |-> width, height |-> height,
          cg_x |-> cg_x, cg_y |-> cg_y, material |-> "steel"]

SteelPlate_area(s) == RMul(s.width, s.height)
SteelPlate_inertia_x_local(s) == RDiv(RMul(s.width, RCube(s.height)), R(12))
SteelPlate_inertia_y_local(s) == RDiv(RMul(s.height, RCube(s.width)), R(12))
SteelPlate_y_min(s) == RSub(s.cg_y, RDiv(s.height, R(2)))
SteelPlate_y_max(s) == RAdd(s.cg_y, RDiv(s.height, R(2)))

\* SteelPlate.get_vertices lines 45-61: bottom-left, bottom-right, top-right,
\* top-left, the width scaled
SteelPlate_get_vertices(s, width_scale_factor) ==
    LET half_w == RDiv(RMul(s.width, width_scale_factor), R(2))
        half_h == RDiv(s.height, R(2))
    IN  <<Pt(RSub(s.cg_x, half_w), RSub(s.cg_y, half_h)),
          Pt(RAdd(s.cg_x, half_w), RSub(s.cg_y, half_h)),
          Pt(RAdd(s.cg_x, half_w), RAdd(s.cg_y, half_h)),
          Pt(RSub(s.cg_x, half_w), RAdd(s.cg_y, half_h))>>

-----------------------------------------------------------------------------
(* shapes/concrete_trapezoid.py *)

\* ConcreteTrapezoid.__init__: a symmetric trapezoid, or ValueError
ConcreteTrapezoid(bottom_width, top_width, height, bottom_center_x, bottom_center_y) ==
    IF RLe(height, Zero)
    THEN ValueError
    ELSE IF RLt(bottom_width, Zero) \/ RLt(top_width, Zero)
    THEN ValueError
    ELSE [cls |-> "ConcreteTrapezoid", b1 |-> bottom_width, b2 |-> top_width,
          h |-> height, bc_x |-> bottom_center_x, bc_y |-> bottom_center_y,
          material |-> "concrete"]

ConcreteTrapezoid_area(s) == RMul(RDiv(RAdd(s.b1, s.b2), R(2)), s.h)

ConcreteTrapezoid_cg_y_local(s) ==
    LET sum_b == RAdd(s.b1, s.b2)
    IN  IF RLt(RAbs(sum_b), Tol)
        THEN RDiv(s.h, R(2))
        ELSE RDiv(RMul(RDiv(s.h, R(3)), RAdd(s.b1, RMul(R(2), s.b2))), sum_b)

ConcreteTrapezoid_cg_y(s) == RAdd(s.bc_y, ConcreteTrapezoid_cg_y_local(s))

ConcreteTrapezoid_inertia_x_local(s) ==
    LET sum_b == RAdd(s.b1, s.b2)
    IN  IF RLt(RAbs(sum_b), Tol)
        THEN Zero
        ELSE RDiv(RMul(RDiv(RCube(s.h), R(36)),
                       RAdd(RAdd(RSq(s.b1), RMul(R(4), RMul(s.b1, s.b2))), RSq(s.b2))),
                  sum_b)

ConcreteTrapezoid_inertia_y_local(s) ==
    LET sum_b == RAdd(s.b1, s.b2)
    IN  IF RLt(RAbs(sum_b), Tol) \/ s.h = Zero
        THEN Zero
        ELSE RDiv(RMul(RMul(s.h, RAdd(s.b1, s.b2)), RAdd(RSq(s.b1), RSq(s.b2))), R(48))

\* ConcreteTrapezoid.get_vertices lines 88-103: both widths scaled
ConcreteTrapezoid_get_vertices(s, width_scale_factor) ==
    LET half_b1 == RDiv(RMul(s.b1, width_scale_factor), R(2))
        half_b2 == RDiv(RMul(s.b2, width_scale_factor), R(2))
    IN  <<Pt(RSub(s.bc_x, half_b1), s.bc_y),
          Pt(RAdd(s.bc_x, half_b1), s.bc_y),
          Pt(RAdd(s.bc_x, half_b2), RAdd(s.bc_y, s.h)),
          Pt(RSub(s.bc_x, half_b2), RAdd(s.bc_y, s.h))>>

-----------------------------------------------------------------------------
(* shapes/rotated_steel_plate.py *)

\* np.linalg.norm of a 2-vector whose length is rational
Norm(v) == RSqrt(RAdd(RSq(v.x), RSq(v.y)))
HasRationalNorm(v) ==
    LET q == RAdd(RSq(v.x), RSq(v.y)) IN IsSquare(q.n) /\ IsSquare(q.d)

\* RotatedSteelPlate.__init__ with the vector definition taking priority
\* when p2, vector and length are all given
RotatedSteelPlate_VectorFirst(thickness, p1, p2, vector, length) ==
    IF RLe(thickness, Zero) THEN ValueError
    ELSE IF p1 = None THEN ValueError
    ELSE IF vector # None /\ length # None THEN
        IF RLe(length, Zero) THEN ValueError
        ELSE IF RLt(Norm(vector), Tol) THEN ValueError
        ELSE [cls |-> "RotatedSteelPlate", t |-> thickness, p1 |-> p1,
              p2 |-> Pt(RAdd(p1.x, RMul(length, RDiv(vector.x, Norm(vector)))),
                        RAdd(p1.y, RMul(length, RDiv(vector.y, Norm(vector))))),
              L |-> length,
              u_dir |-> Pt(RDiv(vector.x, Norm(vector)), RDiv(vector.y, Norm(vector))),
              cg_x |-> RAdd(p1.x, RDiv(RMul(length, RDiv(vector.x, Norm(vector))), R(2))),
              cg_y |-> RAdd(p1.y, RDiv(RMul(length, RDiv(vector.y, Norm(vector))), R(2))),
              definition_method |-> "Vector", material |-> "steel"]
    ELSE IF p2 # None THEN
        IF RLt(Norm(Pt(RSub(p2.x, p1.x), RSub(p2.y, p1.y))), Tol) THEN ValueError
        ELSE [cls |-> "RotatedSteelPlate", t |-> thickness, p1 |-> p1, p2 |-> p2,
              L |-> Norm(Pt(RSub(p2.x, p1.x), RSub(p2.y, p1.y))),
              u_dir |-> Pt(RDiv(RSub(p2.x, p1.x),
                                Norm(Pt(RSub(p2.x, p1.x), RSub(p2.y, p1.y)))),
                           RDiv(RSub(p2.y, p1.y),
                                Norm(Pt(RSub(p2.x, p1.x), RSub(p2.y, p1.y))))),
              cg_x |-> RDiv(RAdd(p1.x, p2.x), R(2)),
              cg_y |-> RDiv(RAdd(p1.y, p2.y), R(2)),
              definition_method |-> "Points", material |-> "steel"]
    ELSE ValueError

\* RotatedSteelPlate.__init__: p2, vector and length may each be None.
\* sin(theta) and cos(theta) of theta = atan2(u_dir[1], u_dir[0]) are the
\* components of the unit vector u_dir, which is what the plate keeps.
RotatedSteelPlate(thickness, p1, p2, vector, length) ==
    IF RLe(thickness, Zero) THEN ValueError
    ELSE IF p1 = None THEN ValueError
    ELSE IF p2 # None THEN
        LET diff == Pt(RSub(p2.x, p1.x), RSub(p2.y, p1.y))
            L == Norm(diff)
        IN  IF RLt(L, Tol) THEN ValueError
            ELSE [cls |-> "RotatedSteelPlate", t |-> thickness, p1 |-> p1, p2 |-> p2,
                  L |-> L, u_dir |-> Pt(RDiv(diff.x, L), RDiv(diff.y, L)),
                  cg_x |-> RDiv(RAdd(p1.x, p2.x), R(2)),
                  cg_y |-> RDiv(RAdd(p1.y, p2.y), R(2)),
                  definition_method |-> "Points", material |-> "steel"]
    ELSE IF vector # None /\ length # None THEN
        IF RLe(length, Zero) THEN ValueError
        ELSE LET v_norm == Norm(vector) IN
            IF RLt(v_norm, Tol) THEN ValueError
            ELSE LET u == Pt(RDiv(vector.x, v_norm), RDiv(vector.y, v_norm))
                     q2 == Pt(RAdd(p1.x, RMul(length, u.x)), RAdd(p1.y, RMul(length, u.y)))
                 IN  [cls |-> "RotatedSteelPlate", t |-> thickness, p1 |-> p1, p2 |-> q2,
                      L |-> length, u_dir |-> u,
                      cg_x |-> RDiv(RAdd(p1.x, q2.x), R(2)),
                      cg_y |-> RDiv(RAdd(p1.y, q2.y), R(2)),
                      definition_method |-> "Vector", material |-> "steel"]
    ELSE ValueError

RotatedSteelPlate_area(s) == RMul(s.L, s.t)

\* inertia_x_local with the sine and the cosine exchanged
RotatedSteelPlate_inertia_x_local_SwapsAxes(s) ==
    LET Iu == RDiv(RMul(s.t, RCube(s.L)), R(12))
        Iv == RDiv(RMul(s.L, RCube(s.t)), R(12))
        sin_t == s.u_dir.y
        cos_t == s.u_dir.x
    IN  RAdd(RMul(Iu, RSq(cos_t)), RMul(Iv, RSq(sin_t)))

RotatedSteelPlate_inertia_x_local(s) ==
    LET Iu == RDiv(RMul(s.t, RCube(s.L)), R(12))
        Iv == RDiv(RMul(s.L, RCube(s.t)), R(12))
        sin_t == s.u_dir.y
        cos_t == s.u_dir.x
    IN  RAdd(RMul(Iu, RSq(sin_t)), RMul(Iv, RSq(cos_t)))

RotatedSteelPlate_inertia_y_local(s) ==
    LET Iu == RDiv(RMul(s.t, RCube(s.L)), R(12))
        Iv == RDiv(RMul(s.L, RCube(s.t)), R(12))
        sin_t == s.u_dir.y
        cos_t == s.u_dir.x
    IN  RAdd(RMul(Iu, RSq(cos_t)), RMul(Iv, RSq(sin_t)))

\* p + k * u for a point p, a number k and a vector u
Offset(p, k, u) == Pt(RAdd(p.x, RMul(k, u.x)), RAdd(p.y, RMul(k, u.y)))

\* RotatedSteelPlate.get_vertices: the four corners, the thickness scaled
RotatedSteelPlate_get_vertices(s, width_scale_factor) ==
    LET scaled0 == RMul(s.t, width_scale_factor)
        scaled_t == IF RLt(scaled0, Zero) THEN Zero ELSE scaled0
        half_t == RDiv(scaled_t, R(2))
        u_norm == Pt(RNeg(s.u_dir.y), s.u_dir.x)
        ends == <<s.p1, s.p2, s.p2, s.p1>>
        side == <<half_t, half_t, RNeg(half_t), RNeg(half_t)>>
    IN  [k \in 1..4 |-> Offset(ends[k], side[k], u_norm)]

\* the y coordinates of the vertices at scale 1.0 (_vertices_coords)
VertexYs(s) ==
    {RotatedSteelPlate_get_vertices(s, One)[k].y : k \in 1..4}

RotatedSteelPlate_y_min(s) ==
    CHOOSE y \in VertexYs(s) : \A z \in VertexYs(s) : RLe(y, z)

RotatedSteelPlate_y_max(s) ==
    CHOOSE y \in VertexYs(s) : \A z \in VertexYs(s) : RLe(z, y)

-----------------------------------------------------------------------------
(* Attribute access on a shape object (duck typing).  Besides the three    *)
(* shape classes the callers may pass any object; DuckObject is one that   *)
(* carries a material tag and no geometry.                                 *)

DuckObject(material) == [cls |-> "object", material |-> material]

\* hasattr(shape, name)
HasAttr(s, name) ==
    CASE name = "material" -> "material" \in DOMAIN s
      [] name \in {"area", "cg_x", "cg_y", "inertia_x_local", "inertia_y_local",
                   "y_min", "y_max"} ->
            s.cls \in {"SteelPlate", "RotatedSteelPlate", "ConcreteTrapezoid"}
      [] OTHER -> name \in DOMAIN s

area(s) ==
    CASE s.cls = "SteelPlate" -> SteelPlate_area(s)
      [] s.cls = "RotatedSteelPlate" -> RotatedSteelPlate_area(s)
      [] s.cls = "ConcreteTrapezoid" -> ConcreteTrapezoid_area(s)

cg_x(s) == IF s.cls = "ConcreteTrapezoid" THEN s.bc_x ELSE s.cg_x

cg_y(s) == IF s.cls = "ConcreteTrapezoid" THEN ConcreteTrapezoid_cg_y(s) ELSE s.cg_y

inertia_x_local(s) ==
    CASE s.cls = "SteelPlate" -> SteelPlate_inertia_x_local(s)
      [] s.cls = "RotatedSteelPlate" -> RotatedSteelPlate_inertia_x_local(s)
      [] s.cls = "ConcreteTrapezoid" -> ConcreteTrapezoid_inertia_x_local(s)

inertia_y_local(s) ==
    CASE s.cls = "SteelPlate" -> SteelPlate_inertia_y_local(s)
      [] s.cls = "RotatedSteelPlate" -> RotatedSteelPlate_inertia_y_local(s)
      [] s.cls = "ConcreteTrapezoid" -> ConcreteTrapezoid_inertia_y_local(s)

\* shape.get_vertices(width_scale_factor) of one of the three shape classes
get_vertices(s, width_scale_factor) ==
    CASE s.cls = "SteelPlate" -> SteelPlate_get_vertices(s, width_scale_factor)
      [] s.cls = "RotatedSteelPlate" ->
            RotatedSteelPlate_get_vertices(s, width_scale_factor)
      [] s.cls = "ConcreteTrapezoid" ->
            ConcreteTrapezoid_get_vertices(s, width_scale_factor)

y_min(s) ==
    CASE s.cls = "SteelPlate" -> SteelPlate_y_min(s)
      [] s.cls = "RotatedSteelPlate" -> RotatedSteelPlate_y_min(s)
      [] s.cls = "ConcreteTrapezoid" -> s.bc_y

y_max(s) ==
    CASE s.cls = "SteelPlate" -> SteelPlate_y_max(s)
      [] s.cls = "RotatedSteelPlate" -> RotatedSteelPlate_y_max(s)
      [] s.cls = "ConcreteTrapezoid" -> RAdd(s.bc_y, s.h)


-----------------------------------------------------------------------------
(* core/materials.py *)

DEFAULT_ES == R(210000)

\* math.pow(x, 0.3): exact at x = 1, and rounded to one decimal at the
\* values of (fck + 8)/10 for fck = 12, 30 and 90
Pow03(x) ==
    CASE x = One -> One
      [] x = R(2) -> Q(12, 10)
      [] x = Q(38, 10) -> Q(15, 10)
      [] x = Q(98, 10) -> R(2)

\* calculate_ecm_ec2(fck), lines 6-13
calculate_ecm_ec2(fck) ==
    IF RLe(fck, Zero) THEN Zero
    ELSE RMul(R(22000), Pow03(RDiv(RAdd(fck, R(8)), R(10))))

\* get_modular_ratio returning 0 instead of +inf for an unusable modulus
get_modular_ratio_ZeroForUnusable(fck, Es) ==
    IF RLe(calculate_ecm_ec2(fck), Tol) THEN Zero
    ELSE RDiv(Es, calculate_ecm_ec2(fck))

\* get_modular_ratio(fck, Es), lines 15-22
get_modular_ratio(fck, Es) ==
    IF RLe(calculate_ecm_ec2(fck), Tol) THEN Inf
    ELSE RDiv(Es, calculate_ecm_ec2(fck))

-----------------------------------------------------------------------------
(* core/section_analysis.py *)

ValueErrorMsg(msg) == [error |-> "ValueError", msg |-> msg]

ZeroProperties ==
    [total_area |-> Zero, centroid_x |-> Zero, centroid_y |-> Zero,
     inertia_x |-> Zero, inertia_y |-> Zero]

\* the check of modular_ratio made whether or not homogenize is set
ModularRatioCheck_Unconditional(homogenize, modular_ratio) ==
    IF modular_ratio = None THEN ValueErrorMsg("required")
    ELSE IF FLe(modular_ratio, Zero) THEN ValueErrorMsg("positive")
    ELSE None

\* lines 24-27: the check of modular_ratio, made only when homogenize is set
ModularRatioCheck(homogenize, modular_ratio) ==
    IF homogenize /\ modular_ratio = None THEN ValueErrorMsg("required")
    ELSE IF homogenize /\ FLe(modular_ratio, Zero) THEN ValueErrorMsg("positive")
    ELSE None

\* lines 39-46: the five attributes read from a shape
CanReadShape(s) ==
    /\ HasAttr(s, "area") /\ HasAttr(s, "cg_x") /\ HasAttr(s, "cg_y")
    /\ HasAttr(s, "inertia_x_local")

\* every shape is divided by the modular ratio, whatever its material
IsHomogenized_IgnoresMaterial(s, homogenize) == homogenize

\* lines 49-58: concrete is divided by the modular ratio, steel is kept
IsHomogenized(s, homogenize) ==
    homogenize /\ HasAttr(s, "material") /\ s.material = "concrete"

\* the properties of a shape with the local inertia about Y of homogenized
\* concrete dropped instead of divided
ShapeProps_DropsConcreteIy(s, homogenize, modular_ratio) ==
    LET Iy_local == IF HasAttr(s, "inertia_y_local") THEN inertia_y_local(s) ELSE Zero
        conc == IsHomogenized(s, homogenize)
    IN  [A  |-> IF conc THEN FDiv(area(s), modular_ratio) ELSE area(s),
         x  |-> cg_x(s),
         y  |-> cg_y(s),
         Ix |-> IF conc THEN FDiv(inertia_x_local(s), modular_ratio) ELSE inertia_x_local(s),
         Iy |-> IF conc THEN Zero ELSE Iy_local]

ShapeProps(s, homogenize, modular_ratio) ==
    LET Iy_local == IF HasAttr(s, "inertia_y_local") THEN inertia_y_local(s) ELSE Zero
        conc == IsHomogenized(s, homogenize)
    IN  [A  |-> IF conc THEN FDiv(area(s), modular_ratio) ELSE area(s),
         x  |-> cg_x(s),
         y  |-> cg_y(s),
         Ix |-> IF conc THEN FDiv(inertia_x_local(s), modular_ratio) ELSE inertia_x_local(s),
         Iy |-> IF conc THEN FDiv(Iy_local, modular_ratio) ELSE Iy_local]

\* a shape is kept when its area is not exactly zero
IsRetained_NonZero(p) == p.A # Zero

\* line 65: a shape is kept when |A| > 1e-9
IsRetained(p) == RGt(RAbs(p.A), Tol)

\* lines 37-69: processed_shapes, the kept shapes in list order
RECURSIVE ProcessedShapes(_, _, _)
ProcessedShapes(ss, homogenize, modular_ratio) ==
    IF ss = << >> THEN << >>
    ELSE LET p == ShapeProps(Head(ss), homogenize, modular_ratio)
             rest == ProcessedShapes(Tail(ss), homogenize, modular_ratio)
         IN  IF IsRetained(p) THEN <<p>> \o rest ELSE rest

\* the running sums of the two loops, taken in list order
RECURSIVE SumSeq(_)
SumSeq(xs) == IF xs = << >> THEN Zero ELSE RAdd(Head(xs), SumSeq(Tail(xs)))

\* the aggregation with the local inertias summed without the parallel-axis
\* terms A * dy^2 and A * dx^2
AggregateProperties_NoSteiner(processed) ==
    LET idx == 1..Len(processed)
        total_area == SumSeq([i \in idx |-> processed[i].A])
        moment_x == SumSeq([i \in idx |-> RMul(processed[i].A, processed[i].y)])
        moment_y == SumSeq([i \in idx |-> RMul(processed[i].A, processed[i].x)])
    IN  IF RLt(RAbs(total_area), Tol)
        THEN ZeroProperties
        ELSE [total_area |-> total_area,
              centroid_x |-> RDiv(moment_y, total_area),
              centroid_y |-> RDiv(moment_x, total_area),
              inertia_x |-> SumSeq([i \in idx |-> processed[i].Ix]),
              inertia_y |-> SumSeq([i \in idx |-> processed[i].Iy])]

\* lines 74-96: centroid and the parallel-axis sums over processed_shapes
AggregateProperties(processed) ==
    LET idx == 1..Len(processed)
        total_area == SumSeq([i \in idx |-> processed[i].A])
        moment_x == SumSeq([i \in idx |-> RMul(processed[i].A, processed[i].y)])
        moment_y == SumSeq([i \in idx |-> RMul(processed[i].A, processed[i].x)])
    IN  IF RLt(RAbs(total_area), Tol)
        THEN ZeroProperties
        ELSE LET centroid_x == RDiv(moment_y, total_area)
                 centroid_y == RDiv(moment_x, total_area)
                 dy(i) == RSub(processed[i].y, centroid_y)
                 dx(i) == RSub(processed[i].x, centroid_x)
             IN  [total_area |-> total_area,
                  centroid_x |-> centroid_x,
                  centroid_y |-> centroid_y,
                  inertia_x |-> SumSeq([i \in idx |->
                      RAdd(processed[i].Ix, RMul(processed[i].A, RSq(dy(i))))]),
                  inertia_y |-> SumSeq([i \in idx |->
                      RAdd(processed[i].Iy, RMul(processed[i].A, RSq(dx(i))))])]

\* calculate_section_properties(shapes, homogenize, modular_ratio): the
\* properties, or the error the call raises
calculate_section_properties(ss, homogenize, modular_ratio) ==
    LET chk == ModularRatioCheck(homogenize, modular_ratio)
    IN  IF chk # None THEN chk
        ELSE IF \E i \in 1..Len(ss) : ~CanReadShape(ss[i]) THEN AttributeError
        ELSE AggregateProperties(ProcessedShapes(ss, homogenize, modular_ratio))


-----------------------------------------------------------------------------
(* core/analysis/section_analysis.py: class SectionPropertiesCalculator.   *)
(* The running sums are fields of the instance, set to zero by __init__    *)
(* and never reset by calculate_properties.                                *)

\* __init__ lines 8-16: the fields of a new instance (shapes, homogenize and
\* modular_ratio are the arguments of the run)
NewInstance ==
    [constructed |-> TRUE, total_area |-> Zero, moment_x |-> Zero,
     moment_y |-> Zero, inertia_x_global |-> Zero, inertia_y_global |-> Zero,
     processed_shapes |-> << >>]

\* lines 43-47: a shape with |A| > 1e-9 is appended and added to the sums
AddShape(self, p) ==
    IF IsRetained(p)
    THEN [self EXCEPT !.processed_shapes = Append(@, p),
                      !.total_area = RAdd(@, p.A),
                      !.moment_x = RAdd(@, RMul(p.A, p.y)),
                      !.moment_y = RAdd(@, RMul(p.A, p.x))]
    ELSE self

\* _process_shape lines 26-47 for a shape whose attributes can be read
process_shape(self, s, homogenize, modular_ratio) ==
    AddShape(self, ShapeProps(s, homogenize, modular_ratio))

\* lines 50-51: the loop over self.shapes from position i on; an unreadable
\* shape raises AttributeError and leaves the fields as they are by then
RECURSIVE ProcessFrom(_, _, _, _, _)
ProcessFrom(i, ss, self, homogenize, modular_ratio) ==
    IF i > Len(ss) THEN [self |-> self, raised |-> FALSE]
    ELSE IF ~CanReadShape(ss[i]) THEN [self |-> self, raised |-> TRUE]
    ELSE ProcessFrom(i + 1, ss,
                     process_shape(self, ss[i], homogenize, modular_ratio),
                     homogenize, modular_ratio)

\* lines 59-63: the loop over self.processed_shapes from position k on
RECURSIVE AccumulateInertia(_, _, _, _)
AccumulateInertia(k, self, centroid_x, centroid_y) ==
    IF k > Len(self.processed_shapes) THEN self
    ELSE LET props == self.processed_shapes[k]
             dy == RSub(props.y, centroid_y)
             dx == RSub(props.x, centroid_x)
         IN  AccumulateInertia(k + 1,
                 [self EXCEPT
                     !.inertia_x_global = RAdd(@, RAdd(props.Ix, RMul(props.A, RSq(dy)))),
                     !.inertia_y_global = RAdd(@, RAdd(props.Iy, RMul(props.A, RSq(dx))))],
                 centroid_x, centroid_y)

\* lines 65-71: the returned dictionary
ReturnProperties(self, centroid_x, centroid_y) ==
    [self |-> self,
     ret |-> [total_area |-> self.total_area,
              centroid_x |-> centroid_x,
              centroid_y |-> centroid_y,
              inertia_x |-> self.inertia_x_global,
              inertia_y |-> self.inertia_y_global]]

\* lines 53-71: what follows the loop over the shapes
FinishCalculation(loop) ==
    IF loop.raised THEN [self |-> loop.self, ret |-> AttributeError]
    ELSE IF RLt(RAbs(loop.self.total_area), Tol)
    THEN [self |-> loop.self, ret |-> ZeroProperties]
    ELSE ReturnProperties(
             AccumulateInertia(1, loop.self,
                               RDiv(loop.self.moment_y, loop.self.total_area),
                               RDiv(loop.self.moment_x, loop.self.total_area)),
             RDiv(loop.self.moment_y, loop.self.total_area),
             RDiv(loop.self.moment_x, loop.self.total_area))

\* calculate_properties lines 49-71: the instance after the call and what
\* the call returns (or the error it raises)
calculate_properties(self, ss, homogenize, modular_ratio) ==
    FinishCalculation(ProcessFrom(1, ss, self, homogenize, modular_ratio))

-----------------------------------------------------------------------------
(* core/stress_analysis.py *)

\* the validations with the inertia checked before the area
StressValidation_InertiaBeforeArea(Mx_ed, A_h, Iy_h, y_G) ==
    IF A_h = None \/ Iy_h = None \/ y_G = None THEN "missing_properties"
    ELSE IF RLt(RAbs(Iy_h), Tol) /\ RGt(RAbs(Mx_ed), Tol) THEN "zero_inertia_with_moment"
    ELSE IF RLt(RAbs(A_h), Tol) THEN "zero_area"
    ELSE "ok"

\* lines 27-36: the three validations, in the order the code makes them;
\* "ok" when all pass
StressValidation(Mx_ed, A_h, Iy_h, y_G) ==
    IF A_h = None \/ Iy_h = None \/ y_G = None THEN "missing_properties"
    ELSE IF RLt(RAbs(A_h), Tol) THEN "zero_area"
    ELSE IF RLt(RAbs(Iy_h), Tol) /\ RGt(RAbs(Mx_ed), Tol) THEN "zero_inertia_with_moment"
    ELSE "ok"

\* line 39
AxialStress(N_ed, A_h) == IF A_h # Zero THEN RDiv(N_ed, A_h) ELSE Zero

\* the neutral axis with the infinity taking the sign of the axial force
NeutralAxis_SignedInfinity(N_ed, Mx_ed, A_h, Iy_h, y_G) ==
    IF RGt(RAbs(Mx_ed), Tol)
    THEN RAdd(y_G, RDiv(RMul(N_ed, Iy_h), RMul(Mx_ed, A_h)))
    ELSE IF RLt(RAbs(N_ed), Tol)
    THEN None
    ELSE IF RGt(N_ed, Zero) THEN Inf ELSE NegInf

\* lines 45-60: the neutral axis
NeutralAxis(N_ed, Mx_ed, A_h, Iy_h, y_G) ==
    IF RGt(RAbs(Mx_ed), Tol)
    THEN RAdd(y_G, RDiv(RMul(N_ed, Iy_h), RMul(Mx_ed, A_h)))
    ELSE IF RLt(RAbs(N_ed), Tol)
    THEN None
    ELSE IF N_ed # Zero THEN Inf ELSE None

\* lines 70-75: sigma(y) of one fibre
FibreStress(y, sigma_axial, Mx_ed, Iy_h, y_G) ==
    IF RGt(RAbs(Iy_h), Tol)
    THEN RSub(sigma_axial, RMul(RDiv(Mx_ed, Iy_h), RSub(y, y_G)))
    ELSE sigma_axial

\* lines 65-89: what the try block of one shape adds to stresses; a shape
\* without y_min, y_max or material raises AttributeError and adds nothing
ShapeStresses(i, s, sigma_axial, Mx_ed, Iy_h, y_G) ==
    IF ~(HasAttr(s, "y_min") /\ HasAttr(s, "y_max") /\ HasAttr(s, "material"))
    THEN << >>
    ELSE <<[shape |-> i, point |-> "ymin", y |-> y_min(s),
            sigma_eq |-> FibreStress(y_min(s), sigma_axial, Mx_ed, Iy_h, y_G),
            mat |-> s.material],
           [shape |-> i, point |-> "ymax", y |-> y_max(s),
            sigma_eq |-> FibreStress(y_max(s), sigma_axial, Mx_ed, Iy_h, y_G),
            mat |-> s.material]>>

\* lines 63-93: the stresses of the shapes at positions i..Len(ss), in order
RECURSIVE StressesFrom(_, _, _, _, _, _)
StressesFrom(i, ss, sigma_axial, Mx_ed, Iy_h, y_G) ==
    IF i > Len(ss) THEN << >>
    ELSE ShapeStresses(i, ss[i], sigma_axial, Mx_ed, Iy_h, y_G)
         \o StressesFrom(i + 1, ss, sigma_axial, Mx_ed, Iy_h, y_G)

\* homog_props.get(key)
PropGet(homog_props, key) ==
    IF key \in DOMAIN homog_props THEN homog_props[key] ELSE None

\* calculate_navier_stress with a shape without vertical extent treated as a
\* hard failure: the error is set and no stresses are returned
calculate_navier_stress_AbortsOnSkippedShape(N_ed, Mx_ed, ss, homog_props) ==
    LET A_h == PropGet(homog_props, "total_area")
        Iy_h == PropGet(homog_props, "inertia_x")
        y_G == PropGet(homog_props, "centroid_y")
        v == StressValidation(Mx_ed, A_h, Iy_h, y_G)
    IN  IF v # "ok"
        THEN [y_na |-> None, stresses |-> << >>, error |-> v]
        ELSE IF \E i \in 1..Len(ss) : ~HasAttr(ss[i], "y_min")
        THEN [y_na |-> NeutralAxis(N_ed, Mx_ed, A_h, Iy_h, y_G),
              stresses |-> << >>, error |-> "shape_error"]
        ELSE [y_na |-> NeutralAxis(N_ed, Mx_ed, A_h, Iy_h, y_G),
              stresses |-> StressesFrom(1, ss, AxialStress(N_ed, A_h), Mx_ed, Iy_h, y_G),
              error |-> "None"]

\* calculate_navier_stress(N_ed, Mx_ed, shapes, homog_props)
calculate_navier_stress(N_ed, Mx_ed, ss, homog_props) ==
    LET A_h == PropGet(homog_props, "total_area")
        Iy_h == PropGet(homog_props, "inertia_x")
        y_G == PropGet(homog_props, "centroid_y")
        v == StressValidation(Mx_ed, A_h, Iy_h, y_G)
    IN  IF v # "ok"
        THEN [y_na |-> None, stresses |-> << >>, error |-> v]
        ELSE [y_na |-> NeutralAxis(N_ed, Mx_ed, A_h, Iy_h, y_G),
              stresses |-> StressesFrom(1, ss, AxialStress(N_ed, A_h), Mx_ed, Iy_h, y_G),
              error |-> "None"]


-----------------------------------------------------------------------------
(* core/analysis/stress_analysis.py: class StressCalculator *)

\* __init__, lines 20-27
StressCalculator(ss, homog_props, N_ed, Mx_ed) ==
    [shapes |-> ss, N_ed |-> N_ed, Mx_ed |-> Mx_ed,
     A_h |-> PropGet(homog_props, "total_area"),
     Iy_h |-> PropGet(homog_props, "inertia_x"),
     y_G |-> PropGet(homog_props, "centroid_y"),
     results |-> [y_na |-> None, stresses |-> << >>, error |-> "None"]]

\* _validate_inputs, lines 29-44: the error it sets, "None" when it
\* returns True
StressCalculator_validate_inputs(self) ==
    IF \E prop \in {self.A_h, self.Iy_h, self.y_G} : prop = None
    THEN "missing_properties"
    ELSE IF RLt(RAbs(self.A_h), Tol) THEN "zero_area"
    ELSE IF RLt(RAbs(self.Iy_h), Tol) /\ RGt(RAbs(self.Mx_ed), Tol)
    THEN "zero_inertia_with_moment"
    ELSE "None"

\* _calculate_axial_stress, line 49
StressCalculator_calculate_axial_stress(self) ==
    IF self.A_h # Zero THEN RDiv(self.N_ed, self.A_h) ELSE Zero

\* _calculate_neutral_axis with the axis of a pure axial force left at None
StressCalculator_calculate_neutral_axis_NoInfinity(self) ==
    IF RGt(RAbs(self.Mx_ed), Tol)
    THEN RAdd(self.y_G, RDiv(RMul(self.N_ed, self.Iy_h), RMul(self.Mx_ed, self.A_h)))
    ELSE None

\* _calculate_neutral_axis, lines 54-65: the value it stores in results
StressCalculator_calculate_neutral_axis(self) ==
    IF RGt(RAbs(self.Mx_ed), Tol)
    THEN RAdd(self.y_G, RDiv(RMul(self.N_ed, self.Iy_h), RMul(self.Mx_ed, self.A_h)))
    ELSE IF RLt(RAbs(self.N_ed), Tol) THEN None
    ELSE IF self.N_ed # Zero THEN Inf ELSE None

\* lines 77-80: the stress of the fibre at y
StressCalculator_fibre(self, sigma_axial, y) ==
    IF RGt(RAbs(self.Iy_h), Tol)
    THEN RSub(sigma_axial, RMul(RDiv(self.Mx_ed, self.Iy_h), RSub(y, self.y_G)))
    ELSE sigma_axial

\* _calculate_stresses_at_points, lines 68-89, from position i on
RECURSIVE StressCalculator_calculate_stresses_at_points(_, _, _)
StressCalculator_calculate_stresses_at_points(self, sigma_axial, i) ==
    IF i > Len(self.shapes) THEN << >>
    ELSE IF ~(HasAttr(self.shapes[i], "y_min") /\ HasAttr(self.shapes[i], "y_max")
              /\ HasAttr(self.shapes[i], "material"))
    THEN StressCalculator_calculate_stresses_at_points(self, sigma_axial, i + 1)
    ELSE <<[shape |-> i, point |-> "ymin", y |-> y_min(self.shapes[i]),
            sigma_eq |-> StressCalculator_fibre(self, sigma_axial,
                                                y_min(self.shapes[i])),
            mat |-> self.shapes[i].material],
           [shape |-> i, point |-> "ymax", y |-> y_max(self.shapes[i]),
            sigma_eq |-> StressCalculator_fibre(self, sigma_axial,
                                                y_max(self.shapes[i])),
            mat |-> self.shapes[i].material]>>
         \o StressCalculator_calculate_stresses_at_points(self, sigma_axial, i + 1)

\* calculate_stresses, lines 91-111: self.results as it is returned
StressCalculator_calculate_stresses(self) ==
    IF StressCalculator_validate_inputs(self) # "None"
    THEN [self.results EXCEPT !.error = StressCalculator_validate_inputs(self)]
    ELSE [y_na |-> StressCalculator_calculate_neutral_axis(self),
          stresses |-> StressCalculator_calculate_stresses_at_points(
                           self, StressCalculator_calculate_axial_stress(self), 1),
          error |-> "None"]

-----------------------------------------------------------------------------
(* core/classification_ec3.py *)

CLASS_LIMITS_FLANGE_COMP == <<R(9), R(10), R(14)>>
CLASS_LIMITS_WEB_COMP == <<R(33), R(38), R(42)>>

\* epsilon = math.sqrt(235.0 / fy) for fy > 0, kept as the number whose
\* positive square root it is
Epsilon(fy) == [sq |-> RDiv(R(235), fy)]

\* the comparison made strict: ratio_ct < limit * epsilon
LeLimitEps_Strict(ratio_ct, limit, epsilon) ==
    \/ RLt(ratio_ct, Zero)
    \/ RLt(RSq(ratio_ct), RMul(RSq(limit), epsilon.sq))

\* ratio_ct <= limit * epsilon, for limit > 0, decided on the squares
LeLimitEps(ratio_ct, limit, epsilon) ==
    \/ RLt(ratio_ct, Zero)
    \/ RLe(RSq(ratio_ct), RMul(RSq(limit), epsilon.sq))

\* lines 21-35
get_element_class(ratio_ct, epsilon, element_type) ==
    LET limits == IF element_type = "outstand"
                  THEN CLASS_LIMITS_FLANGE_COMP
                  ELSE CLASS_LIMITS_WEB_COMP
    IN  IF LeLimitEps(ratio_ct, limits[1], epsilon) THEN 1
        ELSE IF LeLimitEps(ratio_ct, limits[2], epsilon) THEN 2
        ELSE IF LeLimitEps(ratio_ct, limits[3], epsilon) THEN 3
        ELSE 4

\* lines 1-3 and the definitions of the module: the global names a function
\* of core/classification_ec3.py can resolve.  The module imports math only.
ClassificationModuleNames ==
    {"math", "CLASS_LIMITS_FLANGE_COMP", "CLASS_LIMITS_WEB_COMP",
     "get_element_class", "classify_section_ec3"}

\* evaluating a global name that the module does not define raises NameError
NameResolves(name) == name \in ClassificationModuleNames

ThicknessTol == Q(1, ThickTolDen)

Warning(w, i) == [w |-> w, shape |-> i]

\* line 78: isinstance(y_na, (int, float)); float('inf') is a float
IsIntOrFloat(y_na) == y_na # None

\* the cut test without its comparison with the top of the shape
CutsShape_IgnoresTop(y_na, s) == FGt(y_na, y_min(s))

\* line 80: the neutral axis cuts the shape
CutsShape(y_na, s) == FLt(y_na, y_max(s)) /\ FGt(y_na, y_min(s))

\* line 120: the neutral axis is at or below the bottom of the shape
BelowShape(y_na, s) == y_na # None /\ FLe(y_na, y_min(s))

\* lines 97-115 and 123-129: t, c and the element type from the full
\* dimensions of the shape; isinstance(shape, SteelPlate) is evaluated first
\* and isinstance(shape, RotatedSteelPlate) only when it is False.  A name
\* that does not resolve raises NameError, caught at line 147.
FullDimensions(i, s) ==
    IF ~NameResolves("SteelPlate")
    THEN [raised |-> TRUE]
    ELSE IF s.cls = "SteelPlate"
    THEN IF RGt(s.height, s.width)
         THEN [raised |-> FALSE, element_type |-> "internal",
               t |-> s.width, c |-> s.height, warnings |-> << >>]
         ELSE [raised |-> FALSE, element_type |-> "outstand",
               t |-> s.height, c |-> RDiv(s.width, R(2)), warnings |-> << >>]
    ELSE IF ~NameResolves("RotatedSteelPlate")
    THEN [raised |-> TRUE]
    ELSE IF s.cls = "RotatedSteelPlate"
    THEN [raised |-> FALSE, element_type |-> "outstand", t |-> s.t, c |-> s.L,
          warnings |-> <<Warning("rotated_conservative", i)>>]
    ELSE [raised |-> FALSE, element_type |-> "internal", t |-> Zero, c |-> Zero,
          warnings |-> << >>]

\* the classification of one shape with a shape that lacks y_min or y_max
\* left at the default class 1, without a warning
ClassifyShape_DefaultsToClass1(i, s, y_na, epsilon) ==
    IF ~(HasAttr(s, "y_min") /\ HasAttr(s, "y_max"))
    THEN [class |-> 1, warnings |-> << >>]
    ELSE IF IsIntOrFloat(y_na) /\ (CutsShape(y_na, s) \/ BelowShape(y_na, s))
    THEN LET dims == FullDimensions(i, s)
         IN  IF dims.raised
             THEN [class |-> 4, warnings |-> <<Warning("error", i)>>]
             ELSE IF RGt(dims.t, ThicknessTol)
             THEN [class |-> get_element_class(RDiv(dims.c, dims.t), epsilon,
                                               dims.element_type),
                   warnings |-> dims.warnings]
             ELSE [class |-> 1, warnings |-> dims.warnings]
    ELSE [class |-> 1, warnings |-> << >>]

\* lines 63-149: the class of the steel shape at position i and the warnings
\* its classification appends
ClassifyShape(i, s, y_na, epsilon) ==
    IF ~(HasAttr(s, "y_min") /\ HasAttr(s, "y_max"))
    THEN [class |-> 4, warnings |-> <<Warning("no_extent", i)>>]
    ELSE IF IsIntOrFloat(y_na) /\ (CutsShape(y_na, s) \/ BelowShape(y_na, s))
    THEN LET dims == FullDimensions(i, s)
         IN  IF dims.raised
             THEN [class |-> 4, warnings |-> <<Warning("error", i)>>]
             ELSE IF RGt(dims.t, ThicknessTol)
             THEN [class |-> get_element_class(RDiv(dims.c, dims.t), epsilon,
                                               dims.element_type),
                   warnings |-> dims.warnings]
             ELSE [class |-> 1, warnings |-> dims.warnings]
    ELSE [class |-> 1, warnings |-> << >>]

\* line 60: only steel shapes are classified
IsSteel(s) == HasAttr(s, "material") /\ s.material = "steel"

\* lines 58-153: the loop from position i on, given what it has built so far
RECURSIVE ClassifyFrom(_, _, _, _, _)
ClassifyFrom(i, ss, y_na, epsilon, acc) ==
    IF i > Len(ss) THEN acc
    ELSE IF ~IsSteel(ss[i]) THEN ClassifyFrom(i + 1, ss, y_na, epsilon, acc)
    ELSE LET r == ClassifyShape(i, ss[i], y_na, epsilon)
         IN  ClassifyFrom(i + 1, ss, y_na, epsilon,
                [element_classes |->
                     Append(acc.element_classes, [key |-> i, class |-> r.class]),
                 max_class |-> IF r.class > acc.max_class THEN r.class ELSE acc.max_class,
                 warnings |-> acc.warnings \o r.warnings])

FixedWarnings ==
    <<Warning("ec4_rule_not_implemented", 0), Warning("simplified_heuristic", 0)>>

\* classify_section_ec3 that, given fy <= 0, adds its warning and goes on to
\* the loop over the shapes with epsilon = 1 instead of returning
classify_section_ec3_GoesOnAfterInvalidFy(ss, y_na, fy) ==
    LET loop == ClassifyFrom(1, ss, y_na,
                    IF RLe(fy, Zero) THEN Epsilon(R(235)) ELSE Epsilon(fy),
                    [element_classes |-> << >>, max_class |-> 0,
                     warnings |-> IF RLe(fy, Zero)
                                  THEN <<Warning("fy_invalid", 0)>> ELSE << >>])
    IN  [element_classes |-> loop.element_classes,
         overall_class |-> IF RLe(fy, Zero) THEN 1 ELSE loop.max_class,
         warnings |-> IF RLe(fy, Zero) THEN loop.warnings
                      ELSE loop.warnings \o FixedWarnings]

\* classify_section_ec3 with the two fixed warnings appended before the loop
\* over the shapes instead of after it
classify_section_ec3_FixedWarningsFirst(ss, y_na, fy) ==
    IF RLe(fy, Zero)
    THEN [element_classes |-> << >>, overall_class |-> 1,
          warnings |-> <<Warning("fy_invalid", 0)>>]
    ELSE LET loop == ClassifyFrom(1, ss, y_na, Epsilon(fy),
                        [element_classes |-> << >>, max_class |-> 0,
                         warnings |-> FixedWarnings])
         IN  [element_classes |-> loop.element_classes,
              overall_class |-> loop.max_class,
              warnings |-> loop.warnings]

\* classify_section_ec3(shapes, y_na, fy)
classify_section_ec3(ss, y_na, fy) ==
    IF RLe(fy, Zero)
    THEN [element_classes |-> << >>, overall_class |-> 1,
          warnings |-> <<Warning("fy_invalid", 0)>>]
    ELSE LET loop == ClassifyFrom(1, ss, y_na, Epsilon(fy),
                        [element_classes |-> << >>, max_class |-> 0,
                         warnings |-> << >>])
         IN  [element_classes |-> loop.element_classes,
              overall_class |-> loop.max_class,
              warnings |-> loop.warnings \o FixedWarnings]


-----------------------------------------------------------------------------
(* The inputs the entry points are exercised on *)

\* all lists of at most MaxShapes shapes drawn from a set of shapes
ShapeLists(universe) ==
    UNION {[1..k -> universe] : k \in 0..MaxShapes}

HalfTol == RDiv(Tol, R(2))

\* shapes for the section properties: plates and trapezoids of ordinary size,
\* a plate whose area is exactly Tol, a trapezoid of zero area, a rotated
\* plate along the 3-4-5 direction and an object without geometry
PropertyShapes ==
    {SteelPlate(R(4), R(2), Zero, One),
     SteelPlate(R(2), R(6), R(3), R(5)),
     SteelPlate(Tol, One, Zero, Zero),
     RotatedSteelPlate(One, Pt(Zero, Zero), Pt(R(3), R(4)), None, None),
     ConcreteTrapezoid(One, One, One, Zero, R(2)),
     ConcreteTrapezoid(R(3), One, R(3), One, Zero),
     ConcreteTrapezoid(Zero, Zero, R(2), Zero, Zero),
     DuckObject("steel")}

\* modular ratios: missing, invalid, 1, an ordinary one, two that bring the
\* unit-area trapezoid onto and below Tol, and the +inf of get_modular_ratio
ModularRatios ==
    {None, R(-1), Zero, One, R(2), R(TolDen), R(2 * TolDen), Inf}

\* shapes for the stresses: only the vertical extent and the material matter
StressShapes ==
    {SteelPlate(R(2), R(2), Zero, One),
     ConcreteTrapezoid(One, One, One, Zero, R(2)),
     DuckObject("steel")}

AxialForces == {Zero, HalfTol, Tol, RNeg(Tol), R(2), R(-2)}
Moments == {Zero, Tol, RNeg(Tol), R(3), R(-3)}

\* homogenized properties: each of the three values may be missing, below,
\* on or above the tolerance; the last record lacks the key inertia_x
HomogProps ==
    {[total_area |-> a, inertia_x |-> i, centroid_y |-> y] :
        a \in {None, HalfTol, Tol, R(2)},
        i \in {None, HalfTol, Tol, R(3)},
        y \in {None, Zero, One}}
    \cup {[total_area |-> R(2), centroid_y |-> One]}

\* shapes for the classification: flanges with c/t = 9 and 10, webs with
\* c/t = 42 and 43, all centred on y = 0, a horizontal rotated plate, a
\* concrete trapezoid and a steel object without extents
ClassifyShapes ==
    {SteelPlate(R(18), One, Zero, Zero),
     SteelPlate(R(20), One, Zero, Zero),
     SteelPlate(One, R(42), Zero, Zero),
     SteelPlate(One, R(43), Zero, Zero),
     RotatedSteelPlate(One, Pt(Zero, Zero), None, Pt(One, Zero), R(12)),
     ConcreteTrapezoid(One, One, One, Zero, R(2)),
     DuckObject("steel")}

NeutralAxes ==
    {None, Inf, NegInf, R(-30), Q(-1, 2), Zero, Q(1, 2), R(30)}

YieldStrengths == {R(-1), Zero, R(235), R(940)}

\* values of epsilon = sqrt(235/fy) that are rational: fy = 235, 940 and
\* 235 * 9/4 (their square roots are kept beside the squares)
EpsilonRoots == {One, Q(1, 2), Q(2, 3)}

ElementTypes == {"outstand", "internal"}

\* the distance of "just above" and "just below" a threshold (the squares of
\* the ratios must stay within the integers of the model checker)
Nearby == Q(1, 100)

\* slenderness ratios: on, just above and just below every threshold
\* limit * epsilon of both tables, and values far from all of them
SlendernessRatios ==
    LET thresholds ==
            {RMul(lim, e) : lim \in {CLASS_LIMITS_FLANGE_COMP[k] : k \in 1..3}
                                \cup {CLASS_LIMITS_WEB_COMP[k] : k \in 1..3},
                            e \in EpsilonRoots}
    IN  thresholds
        \cup {RAdd(t, Nearby) : t \in thresholds}
        \cup {RSub(t, Nearby) : t \in thresholds}
        \cup {R(-1), Zero, R(100)}

\* the shapes whose vertices are asked for: every shape of the three classes
\* used above
VertexShapes ==
    {s \in PropertyShapes \cup StressShapes \cup ClassifyShapes :
        s.cls # "object"}

\* scale factors: negative, zero, the 1/n of a homogenized view, 1 and above
ScaleFactors == {R(-1), Q(-1, 2), Zero, Q(1, 2), One, R(2)}

\* arguments of the three constructors: dimensions that are negative, zero,
\* below the tolerance and positive; points that coincide, that are closer
\* than the tolerance and that are 5 apart; the zero vector
Dimensions == {R(-1), Zero, HalfTol, R(2)}

ConstructorCalls ==
    [cls : {"SteelPlate"}, width : Dimensions, height : Dimensions,
     cg_x : {Zero}, cg_y : {Zero, One}]
    \cup [cls : {"ConcreteTrapezoid"}, bottom_width : Dimensions,
          top_width : Dimensions, height : Dimensions,
          bottom_center_x : {Zero}, bottom_center_y : {Zero}]
    \cup [cls : {"RotatedSteelPlate"}, thickness : {R(-1), Zero, One},
          p1 : {None, Pt(Zero, Zero)},
          p2 : {None, Pt(Zero, Zero), Pt(HalfTol, Zero), Pt(Tol, Zero),
                Pt(R(3), R(4))},
          vector : {None, Pt(Zero, Zero), Pt(Zero, R(2))},
          length : {None, R(-1), Zero, HalfTol, R(5)}]

\* a rotated plate given by its start point, a direction, its length and
\* the way it is defined; the directions are +X (as a unit vector and as a
\* longer one), +Y and the 3-4-5 direction, and the lengths are multiples of
\* 5 so that the end point is rational
Directions == {Pt(One, Zero), Pt(R(2), Zero), Pt(Zero, One), Pt(R(3), R(4))}

RotatedPlateCalls ==
    [thickness : {Q(1, 2), One, R(2)},
     p1 : {Pt(Zero, Zero), Pt(One, R(-2)), Pt(R(-3), Q(1, 2))},
     direction : Directions,
     length : {R(5), R(10)},
     definition_method : {"Points", "Vector"}]

\* characteristic strengths: not positive, the one with (fck + 8)/10 = 1,
\* and the least, the default and the greatest value of the fck widget
ConcreteStrengths == {R(-1), Zero, R(2), R(12), R(30), R(90)}

\* steel moduli: not positive, and two usual values
SteelModuli == {R(-1), Zero, R(200000), DEFAULT_ES}

\* the session of the application at a run of the script: the widget values
\* (fck between 12 and 90, any Es, fy at least 200, N in kN, M in kN m),
\* whether the analysis button was pressed, and results stored by an
\* earlier run
StoredEarlier == [earlier |-> TRUE]

AppInputs ==
    [fck : {R(12), R(90)}, Es : {R(-1), Zero, DEFAULT_ES},
     N : {Zero, R(-1)}, M : {Zero, One}, fy : {R(235)},
     run_analysis : BOOLEAN, stored : {None, StoredEarlier}]

\* the shapes of a session: they are made by the constructors the forms call
AppShapes ==
    {SteelPlate(R(4), R(2), Zero, One),
     ConcreteTrapezoid(One, One, One, Zero, R(2))}

NoResult == [pending |-> TRUE]

\* no SectionPropertiesCalculator has been constructed
NoInstance == [constructed |-> FALSE]

\* no session: the entry point is called outside the application
NoSession == [started |-> FALSE]

-----------------------------------------------------------------------------
(* The state machine: a call is set up with its arguments, then made *)

InitProperties ==
    /\ op = "properties"
    /\ pc = "call"
    /\ shapes \in ShapeLists(PropertyShapes)
    /\ args \in [homogenize : BOOLEAN, modular_ratio : ModularRatios]
    /\ result = NoResult
    /\ calc = NoInstance
    /\ history = << >>
    /\ session = NoSession

InitStress ==
    /\ op = "stress"
    /\ pc = "call"
    /\ shapes \in ShapeLists(StressShapes)
    /\ args \in [N_ed : AxialForces, Mx_ed : Moments, homog_props : HomogProps]
    /\ result = NoResult
    /\ calc = NoInstance
    /\ history = << >>
    /\ session = NoSession

InitClassify ==
    /\ op = "classify"
    /\ pc = "call"
    /\ shapes \in ShapeLists(ClassifyShapes)
    /\ args \in [y_na : NeutralAxes, fy : YieldStrengths]
    /\ result = NoResult
    /\ calc = NoInstance
    /\ history = << >>
    /\ session = NoSession

CallProperties ==
    /\ op = "properties" /\ pc = "call"
    /\ result' = calculate_section_properties(shapes, args.homogenize, args.modular_ratio)
    /\ pc' = "done"
    /\ UNCHANGED <<session, op, shapes, args, calc, history>>

CallStress ==
    /\ op = "stress" /\ pc = "call"
    /\ result' = calculate_navier_stress(args.N_ed, args.Mx_ed, shapes, args.homog_props)
    /\ pc' = "done"
    /\ UNCHANGED <<session, op, shapes, args, calc, history>>

CallClassify ==
    /\ op = "classify" /\ pc = "call"
    /\ result' = classify_section_ec3(shapes, args.y_na, args.fy)
    /\ pc' = "done"
    /\ UNCHANGED <<session, op, shapes, args, calc, history>>

\* the same call of calculate_section_properties made again and again, or
\* one SectionPropertiesCalculator whose calculate_properties is called
\* again and again
InitRepeated ==
    /\ op \in {"repeat_function", "calculator"}
    /\ pc = "call"
    /\ shapes \in ShapeLists(PropertyShapes)
    /\ args \in [homogenize : BOOLEAN, modular_ratio : ModularRatios]
    /\ result = NoResult
    /\ calc = NoInstance
    /\ history = << >>
    /\ session = NoSession

\* one more call of the function with the arguments of the run
RepeatFunction ==
    /\ op = "repeat_function" /\ Len(history) < MaxCalls
    /\ result' = calculate_section_properties(shapes, args.homogenize, args.modular_ratio)
    /\ history' = Append(history, result')
    /\ pc' = "done"
    /\ UNCHANGED <<session, op, shapes, args, calc>>

\* SectionPropertiesCalculator(shapes, homogenize, modular_ratio): __init__
\* sets the fields and then validates, so a rejected ratio leaves no instance
NewCalculator ==
    /\ op = "calculator" /\ pc = "call"
    /\ LET chk == ModularRatioCheck(args.homogenize, args.modular_ratio)
       IN  IF chk # None
           THEN /\ result' = chk
                /\ pc' = "done"
                /\ calc' = calc
           ELSE /\ result' = result
                /\ pc' = "ready"
                /\ calc' = NewInstance
    /\ UNCHANGED <<session, op, shapes, args, history>>

\* one more call of calculate_properties() on the instance
CallCalculateProperties ==
    /\ op = "calculator" /\ pc = "ready" /\ Len(history) < MaxCalls
    /\ LET r == calculate_properties(calc, shapes, args.homogenize, args.modular_ratio)
       IN  /\ calc' = r.self
           /\ result' = r.ret
           /\ history' = Append(history, r.ret)
    /\ UNCHANGED <<session, op, pc, shapes, args>>

\* a call of get_element_class(ratio_ct, epsilon, element_type)
InitElementClass ==
    /\ op = "element_class"
    /\ pc = "call"
    /\ shapes = << >>
    /\ args \in [ratio_ct : SlendernessRatios, eps_root : EpsilonRoots,
                 element_type : ElementTypes]
    /\ result = NoResult
    /\ calc = NoInstance
    /\ history = << >>
    /\ session = NoSession

CallGetElementClass ==
    /\ op = "element_class" /\ pc = "call"
    /\ result' = [class |-> get_element_class(args.ratio_ct,
                                [sq |-> RSq(args.eps_root)], args.element_type)]
    /\ pc' = "done"
    /\ UNCHANGED <<session, op, shapes, args, calc, history>>

\* a call of shape.get_vertices(width_scale_factor)
InitVertices ==
    /\ op = "vertices"
    /\ pc = "call"
    /\ shapes \in [1..1 -> VertexShapes]
    /\ args \in [width_scale_factor : ScaleFactors]
    /\ result = NoResult
    /\ calc = NoInstance
    /\ history = << >>
    /\ session = NoSession

CallGetVertices ==
    /\ op = "vertices" /\ pc = "call"
    /\ result' = [vertices |-> get_vertices(shapes[1], args.width_scale_factor)]
    /\ pc' = "done"
    /\ UNCHANGED <<session, op, shapes, args, calc, history>>

\* a call of one of the three constructors
InitConstruct ==
    /\ op = "construct"
    /\ pc = "call"
    /\ shapes = << >>
    /\ args \in ConstructorCalls
    /\ result = NoResult
    /\ calc = NoInstance
    /\ history = << >>
    /\ session = NoSession

Construct ==
    /\ op = "construct" /\ pc = "call"
    /\ result' =
         CASE args.cls = "SteelPlate" ->
                SteelPlate(args.width, args.height, args.cg_x, args.cg_y)
           [] args.cls = "ConcreteTrapezoid" ->
                ConcreteTrapezoid(args.bottom_width, args.top_width, args.height,
                                  args.bottom_center_x, args.bottom_center_y)
           [] args.cls = "RotatedSteelPlate" ->
                RotatedSteelPlate(args.thickness, args.p1, args.p2,
                                  args.vector, args.length)
    /\ pc' = "done"
    /\ UNCHANGED <<session, op, shapes, args, calc, history>>

\* a rotated plate and the axis-aligned plate of width = length and
\* height = thickness with the same centre are constructed
InitRotated ==
    /\ op = "rotated"
    /\ pc = "call"
    /\ shapes = << >>
    /\ args \in RotatedPlateCalls
    /\ result = NoResult
    /\ calc = NoInstance
    /\ history = << >>
    /\ session = NoSession

\* the end point at the given length from p1 in the given direction
EndPoint(p1, direction, length) ==
    Offset(p1, RDiv(length, Norm(direction)), direction)

ConstructRotated ==
    /\ op = "rotated" /\ pc = "call"
    /\ result' =
         [rotated |->
              IF args.definition_method = "Points"
              THEN RotatedSteelPlate(args.thickness, args.p1,
                       EndPoint(args.p1, args.direction, args.length), None, None)
              ELSE RotatedSteelPlate(args.thickness, args.p1, None,
                       args.direction, args.length),
          aligned |->
              SteelPlate(args.length, args.thickness,
                         RAdd(args.p1.x, RDiv(args.length, R(2))), args.p1.y)]
    /\ pc' = "done"
    /\ UNCHANGED <<session, op, shapes, args, calc, history>>

\* a call of get_modular_ratio(fck, Es)
InitModularRatio ==
    /\ op = "modular_ratio"
    /\ pc = "call"
    /\ shapes = << >>
    /\ args \in [fck : ConcreteStrengths, Es : SteelModuli]
    /\ result = NoResult
    /\ calc = NoInstance
    /\ history = << >>
    /\ session = NoSession

CallGetModularRatio ==
    /\ op = "modular_ratio" /\ pc = "call"
    /\ result' = [n |-> get_modular_ratio(args.fck, args.Es)]
    /\ pc' = "done"
    /\ UNCHANGED <<session, op, shapes, args, calc, history>>

\* a run of the script of main_app.py with the session's shapes
InitApp ==
    /\ op = "app"
    /\ pc = "call"
    /\ shapes \in ShapeLists(AppShapes)
    /\ args \in AppInputs
    /\ result = NoResult
    /\ calc = NoInstance
    /\ history = << >>
    /\ session = NoSession

\* main_app.py lines 351-367: n, and the properties when the list is not
\* empty and n is valid (n stays 0 and props_homog None otherwise)
AppProperties(ss, fck, Es) ==
    IF ss = << >> THEN [n |-> Zero, props_homog |-> None, calls |-> << >>]
    ELSE IF get_modular_ratio(fck, Es) = Inf \/ FLe(get_modular_ratio(fck, Es), Zero)
    THEN [n |-> get_modular_ratio(fck, Es), props_homog |-> None, calls |-> << >>]
    ELSE [n |-> get_modular_ratio(fck, Es),
          props_homog |-> calculate_section_properties(ss, TRUE,
                                                       get_modular_ratio(fck, Es)),
          calls |-> <<[fn |-> "calculate_section_properties", homogenize |-> FALSE,
                       modular_ratio |-> None, n |-> get_modular_ratio(fck, Es)],
                      [fn |-> "calculate_section_properties", homogenize |-> TRUE,
                       modular_ratio |-> get_modular_ratio(fck, Es),
                       n |-> get_modular_ratio(fck, Es)]>>]

\* main_app.py lines 469-481: the analysis, given what lines 351-367 left
AppAnalysis(ss, inputs, p) ==
    IF ~inputs.run_analysis
    THEN [stress_results |-> inputs.stored, classification_results |-> inputs.stored,
          calls |-> << >>]
    ELSE IF p.props_homog # None /\ FGt(p.n, Zero)
    THEN [stress_results |->
              calculate_navier_stress(RMul(inputs.N, R(1000)),
                                      RMul(inputs.M, R(1000000)), ss, p.props_homog),
          classification_results |->
              classify_section_ec3(ss,
                  calculate_navier_stress(RMul(inputs.N, R(1000)),
                      RMul(inputs.M, R(1000000)), ss, p.props_homog).y_na,
                  inputs.fy),
          calls |-> <<[fn |-> "calculate_navier_stress", n |-> p.n],
                      [fn |-> "classify_section_ec3", n |-> p.n]>>]
    ELSE [stress_results |-> None, classification_results |-> None, calls |-> << >>]

\* what the run leaves: n, props_homog and the stored results
AppResult(p, a) ==
    [n |-> p.n, props_homog |-> p.props_homog,
     stress_results |-> a.stress_results,
     classification_results |-> a.classification_results]

RunScript ==
    /\ op = "app" /\ pc = "call"
    /\ result' = AppResult(AppProperties(shapes, args.fck, args.Es),
                           AppAnalysis(shapes, args,
                                       AppProperties(shapes, args.fck, args.Es)))
    /\ history' = AppProperties(shapes, args.fck, args.Es).calls
                  \o AppAnalysis(shapes, args,
                                 AppProperties(shapes, args.fck, args.Es)).calls
    /\ pc' = "done"
    /\ UNCHANGED <<session, op, shapes, args, calc>>

NextMaterials == CallGetModularRatio \/ RunScript

NextRepeated == RepeatFunction \/ NewCalculator \/ CallCalculateProperties

-----------------------------------------------------------------------------
(* main_app.py: the session state and the functions that change it *)

\* lines 39-50: the session of a user who has just opened the application;
\* the list of shapes is part of it
NewSession ==
    [started |-> TRUE, shapes |-> << >>, undo_stack |-> << >>,
     editing_index |-> None, stress_results |-> None,
     classification_results |-> None]

max_undo == 10

\* undo_stack.pop(0) when the stack has grown beyond max_undo, never
OverLimit_Never(undo_stack) == FALSE

\* len(undo_stack) > max_undo
OverLimit(undo_stack) == Len(undo_stack) > max_undo

\* a copy of the list is appended to the undo stack and the oldest copy is
\* dropped when the stack has more than max_undo entries
PushSnapshot(S) ==
    IF OverLimit(Append(S.undo_stack, S.shapes))
    THEN [S EXCEPT !.undo_stack = Tail(Append(@, S.shapes))]
    ELSE [S EXCEPT !.undo_stack = Append(@, S.shapes)]

\* the two assignments that clear the stored results, the second left out
ClearResults_KeepsClassification(S) ==
    [S EXCEPT !.stress_results = None]

\* stress_results = None; classification_results = None
ClearResults(S) ==
    [S EXCEPT !.stress_results = None, !.classification_results = None]

\* add_shape(shape_object), lines 56-65
add_shape(S, shape_object) ==
    ClearResults([PushSnapshot(S) EXCEPT !.shapes = Append(@, shape_object)])

\* 0 <= index < len(shapes)
IndexInRange(S, index) == 0 <= index /\ index < Len(S.shapes)

\* update_shape(index, updated_shape_object), lines 67-79; Python indices
\* start at 0
update_shape(S, index, updated_shape_object) ==
    IF IndexInRange(S, index)
    THEN ClearResults([PushSnapshot(S) EXCEPT
                           !.shapes[index + 1] = updated_shape_object])
    ELSE S

\* list.pop(index)
PopAt(list, index) ==
    SubSeq(list, 1, index) \o SubSeq(list, index + 2, Len(list))

\* Python's True and False as values returned
True == [bool |-> TRUE]
False == [bool |-> FALSE]

\* delete_shape(index), lines 81-95: the session and the value returned
delete_shape(S, index) ==
    IF IndexInRange(S, index)
    THEN [S |-> ClearResults([PushSnapshot(S) EXCEPT
                                  !.shapes = PopAt(@, index)]),
          ret |-> True]
    ELSE [S |-> S, ret |-> False]

\* undo_last_action that restores the last copy and leaves it on the stack
undo_last_action_KeepsSnapshot(S) ==
    IF S.undo_stack # << >>
    THEN ClearResults([S EXCEPT !.shapes = S.undo_stack[Len(S.undo_stack)],
                                !.editing_index = None])
    ELSE S

\* undo_last_action(), lines 97-109
undo_last_action(S) ==
    IF S.undo_stack # << >>
    THEN ClearResults([S EXCEPT !.shapes = S.undo_stack[Len(S.undo_stack)],
                                !.undo_stack = SubSeq(@, 1, Len(@) - 1),
                                !.editing_index = None])
    ELSE S

\* lines 469-481 with the button pressed: both results are stored, or both
\* are cleared
StoreAnalysis(S, a) ==
    [S EXCEPT !.stress_results = a.stress_results,
              !.classification_results = a.classification_results]

run_analysis(S, inputs) ==
    StoreAnalysis(S, AppAnalysis(S.shapes, inputs,
                                 AppProperties(S.shapes, inputs.fck, inputs.Es)))

\* the plate and the trapezoid the forms add
FormShapes == AppShapes

DefaultPlate == SteelPlate(R(4), R(2), Zero, One)

\* a session that has seen k modifications: the plate is added and deleted
\* in turn
RECURSIVE UsedSession(_)
UsedSession(k) ==
    IF k = 0 THEN NewSession
    ELSE IF k % 2 = 1 THEN add_shape(UsedSession(k - 1), DefaultPlate)
    ELSE delete_shape(UsedSession(k - 1), 0).S

\* the lists of that session before each of its modifications
UsedTrace(k) == [j \in 1..k |-> UsedSession(j - 1).shapes]

\* the sessions the runs start from: a new one, and ones whose undo stack
\* is one short of max_undo and at max_undo
StartModifications == {0, max_undo - 1, max_undo}

\* the widget values of a run with the analysis button pressed
AnalysisInputs ==
    [fck : {R(12)}, Es : {Zero, DEFAULT_ES}, N : {R(-1)}, M : {One},
     fy : {R(235)}, run_analysis : {TRUE}, stored : {None}]

\* the functions are called in any order and with any index; args counts the
\* steps, the modifications made since the last undo (m) and the undos made
\* since the last modification (u), and history holds, for every successful
\* modification made so far, the list as it was before it
InitSession ==
    /\ op = "session"
    /\ pc = "idle"
    /\ \E k \in StartModifications :
          /\ session = UsedSession(k)
          /\ shapes = UsedSession(k).shapes
          /\ history = UsedTrace(k)
          /\ args = [steps |-> 0, m |-> k, u |-> 0]
    /\ result = NoResult
    /\ calc = NoInstance

Modified(a) == [steps |-> a.steps + 1, m |-> IF a.u > 0 THEN 1 ELSE a.m + 1, u |-> 0]
Undone(a) == [steps |-> a.steps + 1, m |-> a.m, u |-> a.u + 1]

CallAddShape ==
    /\ op = "session" /\ args.steps < MaxSteps
    /\ \E shape_object \in FormShapes :
          /\ session' = add_shape(session, shape_object)
          /\ result' = [fn |-> "add_shape", index |-> None, ret |-> None]
    /\ shapes' = session'.shapes
    /\ history' = Append(history, session.shapes)
    /\ args' = Modified(args)
    /\ UNCHANGED <<op, pc, calc>>

CallUpdateShape ==
    /\ op = "session" /\ args.steps < MaxSteps
    /\ \E index \in -1..Len(shapes), updated_shape_object \in FormShapes :
          /\ session' = update_shape(session, index, updated_shape_object)
          /\ result' = [fn |-> "update_shape", index |-> index, ret |-> None]
          /\ IF IndexInRange(session, index)
             THEN history' = Append(history, session.shapes)
                  /\ args' = Modified(args)
             ELSE UNCHANGED <<history, args>>
    /\ shapes' = session'.shapes
    /\ UNCHANGED <<op, pc, calc>>

CallDeleteShape ==
    /\ op = "session" /\ args.steps < MaxSteps
    /\ \E index \in -1..Len(shapes) :
          /\ session' = delete_shape(session, index).S
          /\ result' = [fn |-> "delete_shape", index |-> index,
                        ret |-> delete_shape(session, index).ret]
          /\ IF IndexInRange(session, index)
             THEN history' = Append(history, session.shapes)
                  /\ args' = Modified(args)
             ELSE UNCHANGED <<history, args>>
    /\ shapes' = session'.shapes
    /\ UNCHANGED <<op, pc, calc>>

CallUndoLastAction ==
    /\ op = "session" /\ args.steps < MaxSteps
    /\ session' = undo_last_action(session)
    /\ result' = [fn |-> "undo_last_action", index |-> None, ret |-> None]
    /\ shapes' = session'.shapes
    /\ args' = Undone(args)
    /\ UNCHANGED <<op, pc, calc, history>>

\* the button is enabled when the list is not empty (line 340)
PressRunAnalysis ==
    /\ op = "session" /\ args.steps < MaxSteps
    /\ session.shapes # << >>
    /\ \E inputs \in AnalysisInputs :
          session' = run_analysis(session, inputs)
    /\ result' = [fn |-> "run_analysis", index |-> None, ret |-> None]
    /\ args' = [args EXCEPT !.steps = @ + 1]
    /\ UNCHANGED <<op, pc, shapes, calc, history>>

NextSession ==
    \/ CallAddShape \/ CallUpdateShape \/ CallDeleteShape
    \/ CallUndoLastAction \/ PressRunAnalysis

-----------------------------------------------------------------------------
(* main_app.py: the handlers of the widgets.  Each run of the script starts
   with the detection of the editing mode and serves one widget. *)

\* an integer held by editing_index, which is None otherwise
Index(i) == [index |-> i]

\* lines 159-172: an editing_index that is not an index of the list raises
\* IndexError and is reset
DetectEditing(S) ==
    IF S.editing_index # None /\ S.editing_index.index >= Len(S.shapes)
    THEN [S EXCEPT !.editing_index = None]
    ELSE S

editing_mode(S) == DetectEditing(S).editing_index # None

\* the class of the shape being edited, "none" outside the editing mode
shape_type_being_edited(S) ==
    IF editing_mode(S) THEN S.shapes[S.editing_index.index + 1].cls ELSE "none"

\* what the three forms can submit: the object their constructor makes, or
\* the ValueError it raises (two coincident points in the rotated form)
FormSubmissions ==
    [form : {"SteelPlate"},
     made : {DefaultPlate, SteelPlate(R(2), R(4), Zero, R(2))}]
    \cup [form : {"RotatedSteelPlate"},
          made : {RotatedSteelPlate(One, Pt(Zero, Zero), Pt(R(12), Zero), None, None),
                  RotatedSteelPlate(One, Pt(Zero, Zero), Pt(Zero, Zero), None, None)}]
    \cup [form : {"ConcreteTrapezoid"},
          made : {ConcreteTrapezoid(One, One, One, Zero, R(2))}]

\* lines 189-201, 236-246, 264-272: the submit button of a form; in the
\* editing mode it saves, and only the form of the edited shape is enabled
submit_enabled(S, form) ==
    ~editing_mode(S) \/ shape_type_being_edited(S) = form

submit(S, submission) ==
    IF IsError(submission.made) THEN DetectEditing(S)
    ELSE IF shape_type_being_edited(S) = submission.form
    THEN [update_shape(DetectEditing(S), S.editing_index.index, submission.made)
              EXCEPT !.editing_index = None]
    ELSE add_shape(DetectEditing(S), submission.made)

\* the cancel button of the form of the edited shape
cancel(S) == [DetectEditing(S) EXCEPT !.editing_index = None]

\* line 298: the edit button of component i is disabled while another
\* component is edited
edit_enabled(S, i) ==
    /\ i \in 0..(Len(S.shapes) - 1)
    /\ ~(editing_mode(S) /\ S.editing_index # Index(i))

press_edit(S, i) == [DetectEditing(S) EXCEPT !.editing_index = Index(i)]

\* lines 300-310: the delete button of component i is disabled in the
\* editing mode
delete_enabled(S, i) ==
    /\ i \in 0..(Len(S.shapes) - 1)
    /\ ~editing_mode(S)

press_delete(S, i) == delete_shape(DetectEditing(S), i).S

\* lines 315-330: the stack button is there when the list is not empty, no
\* shape is edited and the last shape is a plate
stack_enabled(S) ==
    /\ S.shapes # << >>
    /\ ~editing_mode(S)
    /\ S.shapes[Len(S.shapes)].cls \in {"SteelPlate", "RotatedSteelPlate"}

StackedPlate(last_shape) ==
    IF last_shape.cls = "SteelPlate"
    THEN SteelPlate(last_shape.width, last_shape.height, last_shape.cg_x,
                    RAdd(y_max(last_shape), RDiv(last_shape.height, R(2))))
    ELSE SteelPlate(last_shape.t, R(10), last_shape.cg_x,
                    RAdd(y_max(last_shape), RDiv(R(10), R(2))))

press_stack(S) ==
    add_shape(DetectEditing(S), StackedPlate(S.shapes[Len(S.shapes)]))

\* undo_last_action with the editing mode left as it is
press_undo_KeepsEditing(S) ==
    [undo_last_action(DetectEditing(S)) EXCEPT
         !.editing_index = DetectEditing(S).editing_index]

\* lines 331-333: the undo button is there when the stack is not empty
press_undo(S) == undo_last_action(DetectEditing(S))

\* the analysis button is enabled when the list is not empty
press_run_analysis(S, inputs) == run_analysis(DetectEditing(S), inputs)

InitUI ==
    /\ op = "ui"
    /\ pc = "idle"
    /\ \E k \in StartModifications :
          /\ session = UsedSession(k)
          /\ shapes = UsedSession(k).shapes
    /\ history = << >>
    /\ args = [steps |-> 0]
    /\ result = NoResult
    /\ calc = NoInstance

\* a run of the script that serves the widget fn and leaves the session S
Served(fn, S) ==
    /\ session' = S
    /\ shapes' = S.shapes
    /\ result' = [fn |-> fn]
    /\ args' = [steps |-> args.steps + 1]
    /\ UNCHANGED <<op, pc, calc, history>>

UIRun == op = "ui" /\ args.steps < MaxSteps

SubmitForm ==
    /\ UIRun
    /\ \E submission \in FormSubmissions :
          /\ submit_enabled(session, submission.form)
          /\ Served("submit", submit(session, submission))

CancelEdit ==
    /\ UIRun
    /\ editing_mode(session)
    /\ Served("cancel", cancel(session))

PressEdit ==
    /\ UIRun
    /\ \E i \in 0..(Len(shapes) - 1) :
          /\ edit_enabled(session, i)
          /\ Served("edit", press_edit(session, i))

PressDelete ==
    /\ UIRun
    /\ \E i \in 0..(Len(shapes) - 1) :
          /\ delete_enabled(session, i)
          /\ Served("delete", press_delete(session, i))

PressStack ==
    /\ UIRun
    /\ stack_enabled(session)
    /\ Served("stack", press_stack(session))

PressUndo ==
    /\ UIRun
    /\ session.undo_stack # << >>
    /\ Served("undo", press_undo(session))

PressAnalysis ==
    /\ UIRun
    /\ session.shapes # << >>
    /\ \E inputs \in AnalysisInputs :
          Served("run_analysis", press_run_analysis(session, inputs))

NextUI ==
    \/ SubmitForm \/ CancelEdit \/ PressEdit \/ PressDelete
    \/ PressStack \/ PressUndo \/ PressAnalysis

\* a calculator object is made and used once, and the function is called
\* with the same arguments
InitCalculators ==
    /\ \/ /\ op = "properties_calculator"
          /\ shapes \in ShapeLists(PropertyShapes)
          /\ args \in [homogenize : BOOLEAN, modular_ratio : ModularRatios]
       \/ /\ op = "stress_calculator"
          /\ shapes \in ShapeLists(StressShapes)
          /\ args \in [N_ed : AxialForces, Mx_ed : Moments, homog_props : HomogProps]
    /\ pc = "call"
    /\ result = NoResult
    /\ calc = NoInstance
    /\ history = << >>
    /\ session = NoSession

\* SectionPropertiesCalculator(shapes, homogenize, n).calculate_properties():
\* the constructor raises what its validation raises
FreshCalculateProperties(ss, homogenize, modular_ratio) ==
    IF ModularRatioCheck(homogenize, modular_ratio) # None
    THEN ModularRatioCheck(homogenize, modular_ratio)
    ELSE calculate_properties(NewInstance, ss, homogenize, modular_ratio).ret

UseSectionPropertiesCalculator ==
    /\ op = "properties_calculator" /\ pc = "call"
    /\ result' = [function |-> calculate_section_properties(
                                   shapes, args.homogenize, args.modular_ratio),
                  object |-> FreshCalculateProperties(
                                 shapes, args.homogenize, args.modular_ratio)]
    /\ pc' = "done"
    /\ UNCHANGED <<session, op, shapes, args, calc, history>>

UseStressCalculator ==
    /\ op = "stress_calculator" /\ pc = "call"
    /\ result' = [function |-> calculate_navier_stress(
                                   args.N_ed, args.Mx_ed, shapes, args.homog_props),
                  object |-> StressCalculator_calculate_stresses(
                                 StressCalculator(shapes, args.homog_props,
                                                  args.N_ed, args.Mx_ed))]
    /\ pc' = "done"
    /\ UNCHANGED <<session, op, shapes, args, calc, history>>

NextCalculators == UseSectionPropertiesCalculator \/ UseStressCalculator

Init ==
    \/ InitProperties \/ InitStress \/ InitClassify \/ InitRepeated
    \/ InitElementClass \/ InitVertices \/ InitConstruct \/ InitRotated
    \/ InitModularRatio \/ InitApp \/ InitSession \/ InitUI
    \/ InitCalculators
Next ==
    \/ CallProperties \/ CallStress \/ CallClassify \/ NextRepeated
    \/ CallGetElementClass \/ CallGetVertices \/ Construct
    \/ ConstructRotated \/ NextMaterials \/ NextSession \/ NextUI
    \/ NextCalculators

Spec == Init /\ [][Next]_vars
SpecProperties == InitProperties /\ [][CallProperties]_vars
SpecStress == InitStress /\ [][CallStress]_vars
SpecClassify == InitClassify /\ [][CallClassify]_vars
SpecRepeated == InitRepeated /\ [][NextRepeated]_vars
SpecElementClass == InitElementClass /\ [][CallGetElementClass]_vars
SpecVertices == InitVertices /\ [][CallGetVertices]_vars
SpecConstruct == InitConstruct /\ [][Construct]_vars
SpecRotated == InitRotated /\ [][ConstructRotated]_vars
SpecMaterials == (InitModularRatio \/ InitApp) /\ [][NextMaterials]_vars
SpecSession == InitSession /\ [][NextSession]_vars
SpecUI == InitUI /\ [][NextUI]_vars
SpecCalculators == InitCalculators /\ [][NextCalculators]_vars


-----------------------------------------------------------------------------
(* Properties of classify_section_ec3 *)

ClassifyDone == op = "classify" /\ pc = "done"

\* the classes recorded in element_classes
RecordedClasses(r) == {r.element_classes[k].class : k \in 1..Len(r.element_classes)}

\* the largest recorded class, 1 when none is recorded
WorstRecordedClass(r) ==
    IF RecordedClasses(r) = {} THEN 1
    ELSE CHOOSE c \in RecordedClasses(r) : \A e \in RecordedClasses(r) : e <= c

\* C1: after classify(shapes, y_na, fy) with fy > 0, overall_class is the
\* largest class recorded in element_classes, is 1 when nothing was recorded
\* (no steel shape in the list, the empty list included), and so lies in 1..4.
C1_OverallClassIsWorstOrOne ==
    (ClassifyDone /\ RGt(args.fy, Zero)) =>
        /\ result.overall_class = WorstRecordedClass(result)
        /\ result.overall_class \in 1..4

\* the class the class-limit table gives an axis-aligned plate for its full
\* dimensions: internal with t = width, c = height when height > width,
\* otherwise outstand with t = height, c = width/2
TableClassOfPlate(s, fy) ==
    IF RGt(s.height, s.width)
    THEN get_element_class(RDiv(s.height, s.width), Epsilon(fy), "internal")
    ELSE get_element_class(RDiv(RDiv(s.width, R(2)), s.height), Epsilon(fy), "outstand")

\* the class recorded for the shape at list position i
RecordedClassOf(r, i) ==
    LET k == CHOOSE j \in 1..Len(r.element_classes) : r.element_classes[j].key = i
    IN  r.element_classes[k].class

HasRecordedClass(r, i) ==
    \E j \in 1..Len(r.element_classes) : r.element_classes[j].key = i

\* C2: with fy > 0 and a finite y_na below the top of an axis-aligned steel
\* plate (inside the plate, or at or below its bottom), the plate is recorded
\* with the class the class-limit table gives for its full dimensions.
C2_PlateGetsTableClass ==
    (ClassifyDone /\ RGt(args.fy, Zero) /\ IsNum(args.y_na)) =>
        \A i \in 1..Len(shapes) :
            (shapes[i].cls = "SteelPlate" /\ RLt(args.y_na, y_max(shapes[i]))) =>
                /\ HasRecordedClass(result, i)
                /\ RecordedClassOf(result, i) = TableClassOfPlate(shapes[i], args.fy)

\* the warnings end with the two fixed advisory warnings
EndsWithFixedWarnings(w) ==
    /\ Len(w) >= 2
    /\ SubSeq(w, Len(w) - 1, Len(w)) = FixedWarnings

\* C3 as stated: every result of classify, for every input (fy <= 0
\* included), has the two fixed advisory warnings as its last two warnings.
C3_FixedWarningsAlways ==
    ClassifyDone => EndsWithFixedWarnings(result.warnings)

\* C3, amended: every result of classify with fy > 0 (the empty shape list
\* included) has the two fixed advisory warnings as its last two warnings;
\* with fy <= 0 the only warning is the one about the invalid fy.
C3_FixedWarningsWhenFyPositive ==
    ClassifyDone =>
        IF RGt(args.fy, Zero)
        THEN EndsWithFixedWarnings(result.warnings)
        ELSE result.warnings = <<Warning("fy_invalid", 0)>>

\* a classification with fy > 0 that appended a warning of its own for a
\* shape before the two fixed ones
C3_Witness ==
    /\ ClassifyDone /\ RGt(args.fy, Zero)
    /\ Len(result.warnings) > 2
    /\ result.warnings[1].shape = 1


-----------------------------------------------------------------------------
(* Properties of calculate_navier_stress *)

StressDone == op = "stress" /\ pc = "done"

\* the three values the stress calculation reads from homog_props
InA == PropGet(args.homog_props, "total_area")
InI == PropGet(args.homog_props, "inertia_x")
InYG == PropGet(args.homog_props, "centroid_y")

\* the three preconditions, as the specification lists them
PropsMissing == InA = None \/ InI = None \/ InYG = None
AreaIsZero == RLt(RAbs(InA), Tol)
InertiaZeroWithMoment == RLt(RAbs(InI), Tol) /\ RGt(RAbs(args.Mx_ed), Tol)
PreconditionsPass == ~PropsMissing /\ ~AreaIsZero /\ ~InertiaZeroWithMoment

\* C4: when the three preconditions pass, y_na is
\* centroid_y + (N*inertia_x)/(Mx*total_area) if |Mx| > 1e-9, otherwise null
\* if |N| < 1e-9, otherwise +infinity whatever the sign of N.
C4_NeutralAxisThreeCases ==
    (StressDone /\ PreconditionsPass) =>
        result.y_na =
            IF RGt(RAbs(args.Mx_ed), Tol)
            THEN RAdd(InYG, RDiv(RMul(args.N_ed, InI), RMul(args.Mx_ed, InA)))
            ELSE IF RLt(RAbs(args.N_ed), Tol) THEN None
            ELSE Inf

\* a compression (N < 0) without moment whose neutral axis is +infinity
C4_Witness ==
    /\ StressDone /\ PreconditionsPass
    /\ RLt(args.N_ed, Zero) /\ ~RGt(RAbs(args.Mx_ed), Tol)
    /\ result.y_na = Inf

\* a shape with a vertical extent, as the stress loop needs it
HasExtent(s) == HasAttr(s, "y_min") /\ HasAttr(s, "y_max") /\ HasAttr(s, "material")

\* the entries recorded for the shape at list position i
EntriesOf(r, i) == {k \in 1..Len(r.stresses) : r.stresses[k].shape = i}
EntryAt(r, i, point) ==
    r.stresses[CHOOSE k \in EntriesOf(r, i) : r.stresses[k].point = point]

\* sigma(y) = N/total_area - (Mx/inertia_x)*(y - centroid_y), the moment
\* term present or left out
SigmaAt(y, withMoment) ==
    IF withMoment
    THEN RSub(RDiv(args.N_ed, InA), RMul(RDiv(args.Mx_ed, InI), RSub(y, InYG)))
    ELSE RDiv(args.N_ed, InA)

\* the recorded stresses follow sigma(y), the moment term left out exactly
\* when omitMoment holds
RecordedStressesFollow(omitMoment) ==
    /\ \A i \in 1..Len(shapes) : HasExtent(shapes[i]) =>
          /\ \E k \in EntriesOf(result, i) : result.stresses[k].point = "ymin"
          /\ \E k \in EntriesOf(result, i) : result.stresses[k].point = "ymax"
          /\ EntryAt(result, i, "ymin").sigma_eq = SigmaAt(y_min(shapes[i]), ~omitMoment)
          /\ EntryAt(result, i, "ymax").sigma_eq = SigmaAt(y_max(shapes[i]), ~omitMoment)
    /\ RGt(args.Mx_ed, Zero) =>
          \A j, k \in 1..Len(result.stresses) :
              (RGe(result.stresses[j].y, InYG) /\ RLe(result.stresses[k].y, InYG)) =>
                  RLe(result.stresses[j].sigma_eq, result.stresses[k].sigma_eq)
    /\ args.Mx_ed = Zero =>
          \A k \in 1..Len(result.stresses) :
              result.stresses[k].sigma_eq = RDiv(args.N_ed, InA)

\* C5: for every shape with a vertical extent the stresses recorded at y_min
\* and y_max are N/total_area - (Mx/inertia_x)*(y - centroid_y), the moment
\* term being left out exactly when |inertia_x| < 1e-9; with Mx > 0 a fibre
\* above the centroid is never more tensile than one below it, and with
\* Mx = 0 every recorded stress is N/total_area.
C5_NavierStressAtExtremes ==
    (StressDone /\ PreconditionsPass) =>
        RecordedStressesFollow(RLt(RAbs(InI), Tol))

\* what the code does: the moment term is left out when |inertia_x| <= 1e-9
C5_CodeOmitsMomentUpToTol ==
    (StressDone /\ PreconditionsPass) =>
        RecordedStressesFollow(RLe(RAbs(InI), Tol))

\* C6: the preconditions are checked in the order missing property, zero
\* area, zero inertia with moment; the first that fails sets its own error,
\* and the result then has y_na = null and no stresses; a zero inertia with
\* |Mx| <= 1e-9 is not an error.
C6_PreconditionOrder ==
    StressDone =>
        /\ result.error =
              IF PropsMissing THEN "missing_properties"
              ELSE IF AreaIsZero THEN "zero_area"
              ELSE IF InertiaZeroWithMoment THEN "zero_inertia_with_moment"
              ELSE "None"
        /\ result.error # "None" => (result.y_na = None /\ result.stresses = << >>)

\* the area and the inertia both fail their checks and the area is reported;
\* and a zero inertia without moment that is no error
C6_Witness ==
    /\ StressDone
    /\ ~PropsMissing /\ AreaIsZero /\ InertiaZeroWithMoment
    /\ result.error = "zero_area"
    /\ Len(shapes) > 0

C6_WitnessZeroInertiaNoMoment ==
    /\ StressDone /\ ~PropsMissing /\ ~AreaIsZero
    /\ RLt(RAbs(InI), Tol) /\ ~RGt(RAbs(args.Mx_ed), Tol)
    /\ result.error = "None"


\* the values (y, sigma_eq, mat) recorded for the shape at position i at
\* the given point, in a result r
ValuesAt(r, i, point) ==
    {[y |-> r.stresses[k].y, sigma_eq |-> r.stresses[k].sigma_eq,
      mat |-> r.stresses[k].mat] :
        k \in {j \in EntriesOf(r, i) : r.stresses[j].point = point}}

\* the result of the same call made for the shape at position i alone
AloneResult(i) ==
    calculate_navier_stress(args.N_ed, args.Mx_ed, <<shapes[i]>>, args.homog_props)

\* C17: when the preconditions pass, a shape without vertical extent is
\* skipped and the error field stays unset; every shape at list position i
\* that has y_min, y_max and material has exactly the two entries
\* shape_i_ymin and shape_i_ymax, whose values are those it gets when it is
\* the only shape of the list; a skipped shape has no entry.
C17_SkippedShapeLeavesOthersAlone ==
    (StressDone /\ PreconditionsPass) =>
        /\ result.error = "None"
        /\ \A i \in 1..Len(shapes) :
              IF HasExtent(shapes[i])
              THEN /\ Cardinality(EntriesOf(result, i)) = 2
                   /\ \A point \in {"ymin", "ymax"} :
                         /\ Cardinality(ValuesAt(result, i, point)) = 1
                         /\ ValuesAt(result, i, point) = ValuesAt(AloneResult(i), 1, point)
              ELSE EntriesOf(result, i) = {}
        /\ \A k \in 1..Len(result.stresses) :
              result.stresses[k].shape \in 1..Len(shapes)

\* an object without vertical extent at position 1 and a plate at position
\* 2 that has its two entries
C17_Witness ==
    /\ StressDone /\ PreconditionsPass /\ Len(shapes) = 2
    /\ ~HasExtent(shapes[1]) /\ HasExtent(shapes[2])
    /\ Len(result.stresses) = 2
    /\ result.stresses[1].shape = 2 /\ result.stresses[2].shape = 2
    /\ RGt(RAbs(args.Mx_ed), Tol) /\ RGt(RAbs(InI), Tol)
    /\ result.error = "None"

-----------------------------------------------------------------------------
(* Properties of calculate_section_properties *)

PropertiesDone == op = "properties" /\ pc = "done"

\* the modular ratio is missing or <= 0
BadModularRatio == args.modular_ratio = None \/ FLe(args.modular_ratio, Zero)

\* C7: the call fails with an error, before any shape is read, when
\* homogenize is true and the modular ratio is missing or <= 0; when
\* homogenize is false the modular ratio is not inspected: any value gives
\* the result of the call without a modular ratio.
C7_ModularRatioPrecondition ==
    PropertiesDone =>
        /\ (args.homogenize /\ BadModularRatio) =>
              (IsError(result) /\ result.error = "ValueError")
        /\ ~args.homogenize =>
              /\ ~(IsError(result) /\ result.error = "ValueError")
              /\ result = calculate_section_properties(shapes, FALSE, None)

\* an invalid modular ratio reported although the list holds an object
\* whose attributes cannot be read
C7_Witness ==
    /\ PropertiesDone /\ args.homogenize /\ args.modular_ratio = Zero
    /\ \E i \in 1..Len(shapes) : ~CanReadShape(shapes[i])
    /\ result.error = "ValueError"

\* C8: calculate_section_properties(shapes, homogenize=True, modular_ratio=1)
\* returns the five values of calculate_section_properties(shapes,
\* homogenize=False), for every list of shapes.
C8_HomogenizeByOneIsIdentity ==
    (PropertiesDone /\ args.homogenize /\ args.modular_ratio = One) =>
        result = calculate_section_properties(shapes, FALSE, None)

\* a homogenization by 1 of a list that holds concrete and returns properties
C8_Witness ==
    /\ PropertiesDone /\ args.homogenize /\ args.modular_ratio = One
    /\ \E i \in 1..Len(shapes) : shapes[i].material = "concrete"
    /\ ~IsError(result) /\ RGt(result.inertia_y, Zero)


\* every object of the list has the attributes the aggregation reads
AllReadable == \A i \in 1..Len(shapes) : CanReadShape(shapes[i])

\* homogenize is set with a modular ratio n > 0
HomogenizingByPositiveRatio ==
    args.homogenize /\ args.modular_ratio # None /\ FGt(args.modular_ratio, Zero)

\* what a shape contributes under homogenization: a concrete shape its
\* value divided by n, any other shape the value itself
Scaled(s, value) ==
    IF s.material = "concrete" THEN FDiv(value, args.modular_ratio) ELSE value

Weight(i) == Scaled(shapes[i], area(shapes[i]))

\* the sum of term(i) over the list positions that satisfy keep(i)
SumWhere(keep(_), term(_)) ==
    SumSeq([i \in 1..Len(shapes) |-> IF keep(i) THEN term(i) ELSE Zero])

\* the five values are the area-weighted aggregate of the shapes at the
\* positions that satisfy keep(i), with the weights Weight(i)
IsAggregateOf(r, keep(_)) ==
    LET wy(i) == RMul(Weight(i), cg_y(shapes[i]))
        wx(i) == RMul(Weight(i), cg_x(shapes[i]))
        ix(i) == RAdd(Scaled(shapes[i], inertia_x_local(shapes[i])),
                      RMul(Weight(i), RSq(RSub(cg_y(shapes[i]), r.centroid_y))))
        iy(i) == RAdd(Scaled(shapes[i], inertia_y_local(shapes[i])),
                      RMul(Weight(i), RSq(RSub(cg_x(shapes[i]), r.centroid_x))))
    IN  /\ r.total_area = SumWhere(keep, Weight)
        /\ RMul(r.centroid_y, r.total_area) = SumWhere(keep, wy)
        /\ RMul(r.centroid_x, r.total_area) = SumWhere(keep, wx)
        /\ r.total_area # Zero =>
              /\ r.inertia_x = SumWhere(keep, ix)
              /\ r.inertia_y = SumWhere(keep, iy)

\* C9 as stated: with homogenize = true and n > 0 every steel shape
\* contributes its unscaled area and local inertias and every concrete shape
\* area/n, inertia_x_local/n and inertia_y_local/n at an unchanged centroid,
\* so total_area = (sum of steel areas) + (sum of concrete areas)/n and the
\* centroid is the area-weighted mean with those weights.
C9_EveryShapeContributes ==
    (PropertiesDone /\ HomogenizingByPositiveRatio /\ AllReadable) =>
        LET all(i) == TRUE
        IN  ~IsError(result) /\ IsAggregateOf(result, all)

\* C9, amended: with homogenize = true and n > 0 the shapes that contribute
\* are those whose weight (area for steel, area/n for concrete) exceeds
\* 1e-9 in absolute value; each of them contributes as stated (steel
\* unscaled, concrete divided by n, centroids unchanged), the others
\* contribute nothing, and total_area and the centroid are the sum and the
\* weighted mean over the contributing shapes.
C9_RetainedShapesContribute ==
    (PropertiesDone /\ HomogenizingByPositiveRatio /\ AllReadable) =>
        LET kept(i) == RGt(RAbs(Weight(i)), Tol)
        IN  ~IsError(result) /\ IsAggregateOf(result, kept)

\* a homogenized section of a steel shape and a concrete shape that both
\* contribute, with n # 1
C9_Witness ==
    /\ PropertiesDone /\ HomogenizingByPositiveRatio /\ AllReadable
    /\ args.modular_ratio = R(2)
    /\ Len(shapes) = 2
    /\ shapes[1].material = "steel" /\ shapes[2].material = "concrete"
    /\ RGt(RAbs(Weight(1)), Tol) /\ RGt(RAbs(Weight(2)), Tol)
    /\ ~IsError(result) /\ RGt(result.inertia_x, Zero)

\* the modular-ratio precondition of the call holds
RatioPreconditionHolds == ~(args.homogenize /\ BadModularRatio)

\* the shape can be read and its (possibly homogenized) |area| is below 1e-9
BelowThreshold(s) ==
    /\ CanReadShape(s)
    /\ RatioPreconditionHolds
    /\ RLt(RAbs(IF args.homogenize THEN Scaled(s, area(s)) ELSE area(s)), Tol)

\* the areas the aggregation retains
RetainedAreaSum ==
    LET a(i) == IF args.homogenize THEN Weight(i) ELSE area(shapes[i])
        kept(i) == RGt(RAbs(a(i)), Tol)
    IN  SumWhere(kept, a)

\* the list without the shapes below the threshold
WithoutBelowThreshold ==
    LET stays(s) == ~BelowThreshold(s) IN SelectSeq(shapes, stays)

\* the result is that of the same call on the list without the shapes
\* below the threshold
BelowThresholdShapesContributeNothing ==
    result = calculate_section_properties(WithoutBelowThreshold,
                                          args.homogenize, args.modular_ratio)

\* C10 as stated: the call returns the all-zero properties and raises no
\* error when the shape list is empty or when the retained areas sum to
\* |total_area| < 1e-9; a shape whose (possibly homogenized) |area| is below
\* 1e-9 contributes to none of the five outputs.
C10_DegenerateInputGivesZeros ==
    PropertiesDone =>
        /\ shapes = << >> => result = ZeroProperties
        /\ (AllReadable /\ RatioPreconditionHolds /\ RLt(RAbs(RetainedAreaSum), Tol)) =>
              result = ZeroProperties
        /\ BelowThresholdShapesContributeNothing

\* C10, amended: when the modular-ratio precondition holds (homogenize is
\* false, or the modular ratio is given and > 0), the call returns the
\* all-zero properties and raises no error for the empty shape list and for
\* a list whose retained areas sum to |total_area| < 1e-9; a shape whose
\* (possibly homogenized) |area| is below 1e-9 contributes to none of the
\* five outputs.  With homogenize = true and a missing or non-positive
\* modular ratio the call raises, also for the empty list.
C10_DegenerateInputGivesZerosWhenRatioValid ==
    PropertiesDone =>
        /\ (shapes = << >> /\ RatioPreconditionHolds) => result = ZeroProperties
        /\ (shapes = << >> /\ ~RatioPreconditionHolds) => IsError(result)
        /\ (AllReadable /\ RatioPreconditionHolds /\ RLt(RAbs(RetainedAreaSum), Tol)) =>
              result = ZeroProperties
        /\ BelowThresholdShapesContributeNothing

\* a concrete shape homogenized to an area below the threshold next to a
\* steel shape that alone makes up the result
C10_Witness ==
    /\ PropertiesDone /\ args.homogenize /\ Len(shapes) = 2
    /\ BelowThreshold(shapes[2]) /\ RGt(Weight(2), Zero)
    /\ ~IsError(result) /\ result.total_area = area(shapes[1])
    /\ RGt(result.total_area, Tol)


\* an aggregation without homogenization of shapes that can all be read
PlainAggregation == PropertiesDone /\ ~args.homogenize /\ AllReadable

\* the properties of one shape taken alone
OwnProperties(s) ==
    [total_area |-> area(s), centroid_x |-> cg_x(s), centroid_y |-> cg_y(s),
     inertia_x |-> inertia_x_local(s), inertia_y |-> inertia_y_local(s)]

\* a single shape with area above the threshold aggregates to its own
\* properties
SingleShapeGivesOwnProperties ==
    (Len(shapes) = 1 /\ RGt(area(shapes[1]), Tol)) =>
        result = OwnProperties(shapes[1])

\* the parallel-axis sums about the returned centroid over the list
\* positions that satisfy keep(i)
ParallelAxisSums(keep(_)) ==
    LET ix(i) == RAdd(inertia_x_local(shapes[i]),
                      RMul(area(shapes[i]),
                           RSq(RSub(cg_y(shapes[i]), result.centroid_y))))
        iy(i) == RAdd(inertia_y_local(shapes[i]),
                      RMul(area(shapes[i]),
                           RSq(RSub(cg_x(shapes[i]), result.centroid_x))))
    IN  /\ result.inertia_x = SumWhere(keep, ix)
        /\ result.inertia_y = SumWhere(keep, iy)

C16_WitnessTwoShapes ==
    /\ PlainAggregation /\ Len(shapes) = 2
    /\ RGt(area(shapes[1]), Tol) /\ RGt(area(shapes[2]), Tol)
    /\ cg_y(shapes[1]) # cg_y(shapes[2])
    /\ RGt(result.inertia_x,
           RAdd(inertia_x_local(shapes[1]), inertia_x_local(shapes[2])))

-----------------------------------------------------------------------------
(* Repeated invocations of the aggregator *)

\* C11: the aggregator retains no state between invocations: every call
\* made with the same shapes, homogenize flag and modular ratio, whether of
\* calculate_section_properties or of calculate_properties() on one
\* SectionPropertiesCalculator instance, returns the same as the first call
C11_RepeatedCallsReturnEqual ==
    \A i \in 1..Len(history) : history[i] = history[1]

\* the part of C11 about the function: its repeated calls do return equal
\* results
C11_FunctionCallsReturnEqual ==
    op = "repeat_function" => \A i \in 1..Len(history) : history[i] = history[1]


-----------------------------------------------------------------------------
(* Properties of get_element_class *)

ElementClassDone == op = "element_class" /\ pc = "done"

\* the limit of class k in the table of the claim
TableLimit(element_type, k) ==
    IF element_type = "outstand"
    THEN CASE k = 1 -> R(9) [] k = 2 -> R(10) [] k = 3 -> R(14)
    ELSE CASE k = 1 -> R(33) [] k = 2 -> R(38) [] k = 3 -> R(42)

\* the classes k whose threshold limit_k * epsilon the ratio does not exceed
ClassesNotExceeded ==
    {k \in 1..3 : RLe(args.ratio_ct,
                      RMul(TableLimit(args.element_type, k), args.eps_root))}

\* C12: get_element_class returns the smallest k in {1,2,3} with
\* c/t <= limit_k(type) * epsilon and 4 when c/t exceeds all three, with the
\* limits {9,10,14} for outstand and {33,38,42} for internal elements; the
\* comparison is inclusive
C12_SmallestClassNotExceeded ==
    ElementClassDone =>
        IF ClassesNotExceeded = {}
        THEN result.class = 4
        ELSE /\ result.class \in ClassesNotExceeded
             /\ \A k \in ClassesNotExceeded : result.class <= k

\* an internal element with epsilon = 1 and c/t exactly 33 got class 1
C12_Witness ==
    /\ ElementClassDone
    /\ args.element_type = "internal" /\ args.eps_root = One
    /\ args.ratio_ct = R(33)
    /\ result.class = 1

\* the boundary cases of the claim: with epsilon = 1 an internal element of
\* c/t just above 33 is class 2 and of c/t just above 42 class 4
C12_JustAboveGetsNextClass ==
    (ElementClassDone /\ args.element_type = "internal" /\ args.eps_root = One) =>
        /\ args.ratio_ct = RAdd(R(33), Nearby) => result.class = 2
        /\ args.ratio_ct = RAdd(R(42), Nearby) => result.class = 4


-----------------------------------------------------------------------------
(* Properties of get_vertices *)

VerticesDone == op = "vertices" /\ pc = "done"

\* a negative scale gives the vertices of scale 0
NegativeScaleIsClamped ==
    RLt(args.width_scale_factor, Zero) =>
        result.vertices = get_vertices(shapes[1], Zero)

\* the mid-points of the two sides across the width (v1-v4 and v2-v3 of a
\* rotated plate, whose distance is the length) and the y coordinates of an
\* axis-aligned plate or a trapezoid (whose difference is the height) are
\* those of the unscaled shape
Mid(p, q) == Pt(RDiv(RAdd(p.x, q.x), R(2)), RDiv(RAdd(p.y, q.y), R(2)))

ScaleChangesOnlyWidth ==
    LET v == result.vertices
        u == get_vertices(shapes[1], One)
    IN  IF shapes[1].cls = "RotatedSteelPlate"
        THEN Mid(v[1], v[4]) = shapes[1].p1 /\ Mid(v[2], v[3]) = shapes[1].p2
        ELSE \A k \in 1..4 : v[k].y = u[k].y

\* C13: get_vertices(scale) of each of the three shape classes clamps a
\* negative scale to 0 (the vertices of a negative scale are those of scale
\* 0), and the scale changes the cross-sectional width only, never the
\* height or the length
C13_NegativeScaleClampedOnlyWidthScaled ==
    VerticesDone => NegativeScaleIsClamped /\ ScaleChangesOnlyWidth

\* what the code does: only the rotated plate clamps, and for every class
\* the scale leaves the height or the length alone
C13_OnlyRotatedPlateClamps ==
    VerticesDone =>
        /\ shapes[1].cls = "RotatedSteelPlate" => NegativeScaleIsClamped
        /\ ScaleChangesOnlyWidth


-----------------------------------------------------------------------------
(* Properties of the constructors *)

ConstructDone == op = "construct" /\ pc = "done"

Constructed == ConstructDone /\ ~IsError(result)

\* the arguments for which the claim says construction fails
MustFail ==
    \/ /\ args.cls = "SteelPlate"
       /\ RLe(args.width, Zero) \/ RLe(args.height, Zero)
    \/ /\ args.cls = "ConcreteTrapezoid"
       /\ \/ RLe(args.height, Zero)
          \/ RLt(args.bottom_width, Zero)
          \/ RLt(args.top_width, Zero)

\* C14: every shape whose construction succeeds has area > 0, and
\* construction fails for an axis-aligned plate with width <= 0 or
\* height <= 0 and for a trapezoid with height <= 0 or a negative width
C14_ConstructedAreaPositive ==
    /\ Constructed => RGt(area(result), Zero)
    /\ (ConstructDone /\ MustFail) => IsError(result)

\* a trapezoid both of whose widths are zero
ZeroWidthTrapezoid ==
    /\ args.cls = "ConcreteTrapezoid"
    /\ args.bottom_width = Zero /\ args.top_width = Zero

\* C14 as the code has it: the area of a constructed shape is > 0 except for
\* a trapezoid of widths b1 = b2 = 0, which is constructed with area 0;
\* axis-aligned plates and trapezoids are constructed exactly when the
\* claim's failure conditions do not hold
C14_ConstructedAreaPositiveUnlessZeroWidths ==
    /\ Constructed =>
          IF ZeroWidthTrapezoid
          THEN area(result) = Zero
          ELSE RGt(area(result), Zero)
    /\ (ConstructDone /\ args.cls \in {"SteelPlate", "ConcreteTrapezoid"}) =>
          (IsError(result) <=> MustFail)

\* a trapezoid of zero widths and positive height has been constructed
C14_Witness ==
    Constructed /\ ZeroWidthTrapezoid /\ area(result) = Zero


-----------------------------------------------------------------------------
(* A rotated plate along +X and the equivalent axis-aligned plate *)

RotatedDone == op = "rotated" /\ pc = "done"

\* the direction of the plate is +X (theta = 0)
AlongX == args.direction.y = Zero /\ RGt(args.direction.x, Zero)

\* the geometric properties of a shape the claim compares
Geometry(s) ==
    [area |-> area(s), inertia_x_local |-> inertia_x_local(s),
     inertia_y_local |-> inertia_y_local(s), cg_x |-> cg_x(s), cg_y |-> cg_y(s),
     y_min |-> y_min(s), y_max |-> y_max(s)]

\* C15: a rotated plate of thickness t along +X with length L has the same
\* area, inertia_x_local, inertia_y_local, centroid, y_min and y_max as the
\* axis-aligned plate of width L and height t with the same centre, whether
\* it was defined by two points or by start point, vector and length
C15_RotatedAlongXEqualsAligned ==
    (RotatedDone /\ AlongX) =>
        Geometry(result.rotated) = Geometry(result.aligned)

\* a plate along +X defined by a vector that is not a unit vector, whose
\* length differs from its thickness
C15_Witness ==
    /\ RotatedDone /\ AlongX
    /\ args.definition_method = "Vector" /\ args.direction.x = R(2)
    /\ result.rotated.p2 = Pt(RAdd(args.p1.x, args.length), args.p1.y)
    /\ inertia_x_local(result.rotated) # inertia_y_local(result.rotated)

\* the same plate defined by two points
C15_WitnessPoints ==
    /\ RotatedDone /\ AlongX
    /\ args.definition_method = "Points"
    /\ result.rotated.L = args.length
    /\ area(result.rotated) = RMul(args.length, args.thickness)


-----------------------------------------------------------------------------
(* The per-shape results of classify_section_ec3 *)

\* the list positions that have an entry in element_classes
RecordedKeys(r) == {r.element_classes[k].key : k \in 1..Len(r.element_classes)}

\* the list positions of the steel shapes
SteelPositions == {i \in 1..Len(shapes) : shapes[i].material = "steel"}

\* a warning about the shape at position i is among the warnings
WarnedAbout(r, i) == \E k \in 1..Len(r.warnings) : r.warnings[k].shape = i

\* the warning of a failed classification of the shape at position i
FailureWarned(r, i) ==
    \E k \in 1..Len(r.warnings) :
        r.warnings[k].shape = i /\ r.warnings[k].w \in {"no_extent", "error"}

\* the class the shape at position i gets when it is the only shape
ClassAlone(i) ==
    classify_section_ec3(<<shapes[i]>>, args.y_na, args.fy).element_classes[1].class

\* C18: in classify with fy > 0, element_classes has exactly one entry per
\* steel shape, keyed by its 1-based list position, and none for a concrete
\* shape; every value is in 1..4; a steel shape without y_min/y_max, or one
\* whose classification raises another error, gets class 4 and a warning;
\* and every shape gets the class it gets without the other shapes.
C18_OneClassPerSteelShape ==
    (ClassifyDone /\ RGt(args.fy, Zero)) =>
        /\ RecordedKeys(result) = SteelPositions
        /\ Len(result.element_classes) = Cardinality(SteelPositions)
        /\ \A k \in 1..Len(result.element_classes) :
              result.element_classes[k].class \in 1..4
        /\ \A i \in SteelPositions :
              /\ ~(HasAttr(shapes[i], "y_min") /\ HasAttr(shapes[i], "y_max")) =>
                    (RecordedClassOf(result, i) = 4 /\ FailureWarned(result, i))
              /\ FailureWarned(result, i) => RecordedClassOf(result, i) = 4
              /\ RecordedClassOf(result, i) = ClassAlone(i)

\* a steel object without extents at position 1 gets class 4 and a warning,
\* and the plate after it, which the neutral axis leaves uncompressed, is
\* still classified: class 1
C18_Witness ==
    /\ ClassifyDone /\ RGt(args.fy, Zero) /\ Len(shapes) = 2
    /\ shapes[1].cls = "object" /\ shapes[2].cls = "SteelPlate"
    /\ result.element_classes = <<[key |-> 1, class |-> 4], [key |-> 2, class |-> 1]>>
    /\ FailureWarned(result, 1) /\ ~WarnedAbout(result, 2)

\* a concrete shape between an erroring plate and a plate that is classified
C18_WitnessErrorAndConcrete ==
    /\ ClassifyDone /\ RGt(args.fy, Zero) /\ Len(shapes) = 2
    /\ shapes[1].material = "concrete" /\ shapes[2].cls = "SteelPlate"
    /\ RecordedKeys(result) = {2}
    /\ FailureWarned(result, 2)


-----------------------------------------------------------------------------
(* The modular ratio and its use by the application *)

ModularRatioDone == op = "modular_ratio" /\ pc = "done"

AppDone == op = "app" /\ pc = "done"

\* the ratio is +inf when fck <= 0, where the secant modulus is 0, and is
\* otherwise the finite number whose product with Ecm is Es
RatioIsInfOrQuotient ==
    IF RLe(args.fck, Zero)
    THEN calculate_ecm_ec2(args.fck) = Zero /\ result.n = Inf
    ELSE /\ IsNum(result.n)
         /\ RMul(result.n, calculate_ecm_ec2(args.fck)) = args.Es

\* the ratio of the run is +inf or not positive
InvalidRatio ==
    \/ get_modular_ratio(args.fck, args.Es) = Inf
    \/ FLe(get_modular_ratio(args.fck, args.Es), Zero)

\* every call the run made had a finite positive ratio in force, and the
\* homogenizing call was given that ratio
CallsHadValidRatio ==
    \A k \in 1..Len(history) :
        /\ IsNum(history[k].n)
        /\ FGt(history[k].n, Zero)
        /\ history[k].n = get_modular_ratio(args.fck, args.Es)
        /\ (history[k].fn = "calculate_section_properties" /\ history[k].homogenize
                => history[k].modular_ratio = history[k].n)

\* with an invalid ratio the run calls nothing and computes nothing: the
\* properties are None, and pressing the button clears the stored results
\* (not pressing it leaves what an earlier run stored)
NothingProduced ==
    /\ history = << >>
    /\ result.props_homog = None
    /\ IF args.run_analysis
       THEN result.stress_results = None /\ result.classification_results = None
       ELSE result.stress_results = args.stored
            /\ result.classification_results = args.stored

\* C19: get_modular_ratio(fck, Es) returns +inf exactly when fck <= 0 (the
\* secant modulus being 0 there) and the finite quotient Es/Ecm otherwise;
\* a run of the application calls the property, stress and classification
\* functions only with a finite positive ratio, and with an infinite or
\* non-positive one it calls none of them and produces no result.
C19_InfiniteRatioNeverPassedOn ==
    /\ ModularRatioDone => RatioIsInfOrQuotient
    /\ AppDone => CallsHadValidRatio /\ (InvalidRatio => NothingProduced)

\* the button is pressed on a session with shapes and earlier results while
\* Es = 0 makes the ratio 0: the results are cleared and nothing is called
C19_Witness ==
    /\ AppDone
    /\ shapes # << >>
    /\ args.run_analysis
    /\ args.Es = Zero
    /\ args.stored = StoredEarlier
    /\ result.n = Zero
    /\ result.stress_results = None

\* fck = 0 gives +inf whatever Es is
C19_WitnessInfinite ==
    /\ ModularRatioDone
    /\ args.fck = Zero
    /\ args.Es = DEFAULT_ES
    /\ result.n = Inf

\* a valid ratio with the button pressed calls all four functions
C19_WitnessAnalysed ==
    /\ AppDone
    /\ Len(history) = 4
    /\ result.n = Q(175, 22)
    /\ result.stress_results # None

-----------------------------------------------------------------------------
(* Classification without a yield strength *)

\* what the call returns before looking at the shapes
InvalidFyResult ==
    [element_classes |-> << >>, overall_class |-> 1,
     warnings |-> <<Warning("fy_invalid", 0)>>]

\* C20: with fy <= 0, classify_section_ec3 returns overall_class = 1, no
\* element classes and the single warning that epsilon cannot be computed,
\* whatever the list of shapes and the neutral axis are: no shape is read,
\* so no shape adds a class or a warning of its own.
C20_InvalidFyReturnsImmediately ==
    ClassifyDone /\ RLe(args.fy, Zero) => result = InvalidFyResult

\* fy = 0 with a real neutral axis and a list of a steel object without
\* extents and a plate: with fy > 0 the first gets class 4 and a warning
C20_Witness ==
    /\ ClassifyDone /\ args.fy = Zero /\ IsNum(args.y_na)
    /\ Len(shapes) = 2
    /\ shapes[1].cls = "object" /\ shapes[1].material = "steel"
    /\ shapes[2].cls = "SteelPlate"
    /\ classify_section_ec3(shapes, args.y_na, R(235)).overall_class = 4
    /\ result.overall_class = 1
    /\ result.element_classes = << >>

\* a negative fy, the empty list and no neutral axis
C20_WitnessNegative ==
    /\ ClassifyDone /\ RLt(args.fy, Zero) /\ shapes = << >> /\ args.y_na = None
    /\ result = InvalidFyResult

-----------------------------------------------------------------------------
(* Shapes the neutral axis does not compress *)

\* the positions of the steel shapes that have y_min and y_max
SteelWithExtents ==
    {i \in 1..Len(shapes) :
        IsSteel(shapes[i]) /\ HasAttr(shapes[i], "y_min") /\ HasAttr(shapes[i], "y_max")}

\* the shape at position i is recorded with class 1 and no warning names it
ClassOneUnwarned(i) ==
    /\ HasRecordedClass(result, i)
    /\ RecordedClassOf(result, i) = 1
    /\ ~WarnedAbout(result, i)

\* C21: with fy > 0 and a finite y_na, a steel shape with extents whose top
\* is at or below y_na is recorded with class 1 and gets no warning of its
\* own, whatever its slenderness.
C21_ShapeBelowAxisIsClassOne ==
    (ClassifyDone /\ RGt(args.fy, Zero) /\ IsNum(args.y_na)) =>
        \A i \in SteelWithExtents :
            RLe(y_max(shapes[i]), args.y_na) => ClassOneUnwarned(i)

\* the web with c/t = 43, beyond the class 3 limit at fy = 235, lies wholly
\* below y_na = 30 and gets class 1, while the flange whose top is exactly on
\* the axis y_na = 1/2 is covered by the second witness
C21_Witness ==
    /\ ClassifyDone /\ args.fy = R(235) /\ args.y_na = R(30)
    /\ Len(shapes) = 1
    /\ shapes[1] = SteelPlate(One, R(43), Zero, Zero)
    /\ get_element_class(R(43), Epsilon(args.fy), "internal") = 4
    /\ ClassOneUnwarned(1)

C21_WitnessTopOnAxis ==
    /\ ClassifyDone /\ args.fy = R(235) /\ args.y_na = Q(1, 2)
    /\ Len(shapes) = 2
    /\ shapes[1] = SteelPlate(R(20), One, Zero, Zero)
    /\ y_max(shapes[1]) = args.y_na
    /\ shapes[2].cls = "RotatedSteelPlate"
    /\ ClassOneUnwarned(1) /\ ClassOneUnwarned(2)

\* C22: with fy > 0 and y_na None, +inf or -inf, no steel shape is treated
\* as compressed: every steel shape with extents is recorded with class 1.
C22_NoCompressionWithoutFiniteAxis ==
    (ClassifyDone /\ RGt(args.fy, Zero) /\ ~IsNum(args.y_na)) =>
        \A i \in SteelWithExtents :
            /\ HasRecordedClass(result, i)
            /\ RecordedClassOf(result, i) = 1

\* what does hold: None and +inf compress nothing
C22_NoneAndPlusInfCompressNothing ==
    (ClassifyDone /\ RGt(args.fy, Zero) /\ args.y_na \in {None, Inf}) =>
        \A i \in SteelWithExtents : ClassOneUnwarned(i)

\* y_na = -inf passes the below-the-shape test of line 120 and the shape is
\* not left at class 1
C22_MinusInfIsBelowEveryShape ==
    /\ ClassifyDone /\ RGt(args.fy, Zero) /\ args.y_na = NegInf
    /\ Len(shapes) = 1 /\ shapes[1].cls = "SteelPlate"
    /\ BelowShape(args.y_na, shapes[1])
    /\ RecordedClassOf(result, 1) # 1

-----------------------------------------------------------------------------
(* The stress field and the neutral axis *)

ReturnedWithoutError == StressDone /\ result.error = "None"

\* C23: when the stress calculation returns without error and with y_na None
\* (|Mx| <= 1e-9 and |N| < 1e-9), every recorded sigma_eq is 0.
C23_NoAxisMeansZeroStress ==
    (ReturnedWithoutError /\ result.y_na = None) =>
        \A k \in 1..Len(result.stresses) : result.stresses[k].sigma_eq = Zero

\* what does hold: N = 0 and Mx = 0 exactly give a field that is zero
C23_ZeroActionsGiveZeroStress ==
    (ReturnedWithoutError /\ args.N_ed = Zero /\ args.Mx_ed = Zero) =>
        /\ result.y_na = None
        /\ \A k \in 1..Len(result.stresses) : result.stresses[k].sigma_eq = Zero

\* an axial force below the tolerance that is not 0: y_na is None and the
\* recorded stresses are N/total_area
C23_SmallForceGivesStress ==
    /\ ReturnedWithoutError /\ result.y_na = None
    /\ args.N_ed = HalfTol /\ args.Mx_ed = Zero
    /\ Len(result.stresses) > 0
    /\ \A k \in 1..Len(result.stresses) :
           result.stresses[k].sigma_eq = RDiv(args.N_ed, InA)
    /\ result.stresses[1].sigma_eq # Zero

\* the recorded stresses of the shape at position i vanish at y_na: 0 at an
\* end that lies on the axis, opposite signs at the ends when the axis is
\* strictly between them
VanishesAtAxis(i) ==
    /\ y_min(shapes[i]) = result.y_na => EntryAt(result, i, "ymin").sigma_eq = Zero
    /\ y_max(shapes[i]) = result.y_na => EntryAt(result, i, "ymax").sigma_eq = Zero
    /\ (RLt(y_min(shapes[i]), result.y_na) /\ RLt(result.y_na, y_max(shapes[i]))) =>
           RLt(RMul(EntryAt(result, i, "ymin").sigma_eq,
                    EntryAt(result, i, "ymax").sigma_eq), Zero)

\* C24: when the stress calculation returns without error and with a finite
\* y_na, the recorded stresses vanish at y_na, for every inertia_x that
\* passes the validation, |inertia_x| equal to the tolerance included.
C24_StressVanishesAtAxis ==
    (ReturnedWithoutError /\ IsNum(result.y_na)) =>
        \A i \in 1..Len(shapes) : HasExtent(shapes[i]) => VanishesAtAxis(i)

\* what does hold: the same for |inertia_x| above the tolerance
C24_StressVanishesAtAxisAboveTolerance ==
    (ReturnedWithoutError /\ IsNum(result.y_na) /\ RGt(RAbs(InI), Tol)) =>
        \A i \in 1..Len(shapes) : HasExtent(shapes[i]) => VanishesAtAxis(i)

\* N = -2, Mx = 3, total_area = 2, inertia_x = 3, centroid_y = 1 put the axis
\* at y = 0, the bottom of both shapes, where the recorded stress is 0
C24_AxisOnBottomFibre ==
    /\ ReturnedWithoutError /\ result.y_na = Zero /\ args.N_ed = R(-2)
    /\ Len(shapes) = 1 /\ HasExtent(shapes[1])
    /\ y_min(shapes[1]) = Zero
    /\ EntryAt(result, 1, "ymin").sigma_eq = Zero
    /\ EntryAt(result, 1, "ymax").sigma_eq # Zero

\* |inertia_x| equal to the tolerance passes the validation but the moment
\* term is left out of the stresses: the axis is inside the shape and both
\* ends carry N/total_area
C24_InertiaOnToleranceKeepsSign ==
    /\ ReturnedWithoutError /\ IsNum(result.y_na) /\ InI = Tol
    /\ Len(shapes) = 1 /\ HasExtent(shapes[1])
    /\ RLt(y_min(shapes[1]), result.y_na) /\ RLt(result.y_na, y_max(shapes[1]))
    /\ EntryAt(result, 1, "ymin").sigma_eq = RDiv(args.N_ed, InA)
    /\ EntryAt(result, 1, "ymax").sigma_eq = RDiv(args.N_ed, InA)
    /\ args.N_ed # Zero

-----------------------------------------------------------------------------
(* Construction of a rotated plate *)

RotatedCall == ConstructDone /\ args.cls = "RotatedSteelPlate"

\* the distance between the two points given to the constructor
GivenDistance ==
    Norm(Pt(RSub(args.p2.x, args.p1.x), RSub(args.p2.y, args.p1.y)))

\* the arguments for which the construction of a rotated plate fails: the
\* vector and the length are looked at only when p2 is not given
RotatedMustFail ==
    \/ RLe(args.thickness, Zero)
    \/ args.p1 = None
    \/ args.p2 # None /\ RLt(GivenDistance, Tol)
    \/ /\ args.p2 = None
       /\ \/ args.vector = None
          \/ args.length = None
          \/ RLe(args.length, Zero)
          \/ RLt(Norm(args.vector), Tol)

\* the end points of the plate are distinct, p2 = p1 + L*u_dir, u_dir has
\* unit length and the centre is the midpoint of p1 and p2
EndPointsAndCentre ==
    /\ result.p1 # result.p2
    /\ result.p2 = Pt(RAdd(result.p1.x, RMul(result.L, result.u_dir.x)),
                      RAdd(result.p1.y, RMul(result.L, result.u_dir.y)))
    /\ RAdd(RSq(result.u_dir.x), RSq(result.u_dir.y)) = One
    /\ result.cg_x = RDiv(RAdd(result.p1.x, result.p2.x), R(2))
    /\ result.cg_y = RDiv(RAdd(result.p1.y, result.p2.y), R(2))

\* with p2 given the plate runs from p1 to p2, whatever vector and length are
PointsDefinitionUsed ==
    args.p2 # None =>
        /\ result.p1 = args.p1 /\ result.p2 = args.p2
        /\ result.L = GivenDistance

\* C25: every rotated plate that is constructed, by either definition, has
\* distinct end points at distance L > 1e-9 with p2 = p1 + L*u_dir, u_dir of
\* unit length and the centre at the midpoint; construction fails for the
\* listed arguments, and the points definition is used when both are given.
C25_RotatedPlateLongerThanTolerance ==
    /\ (RotatedCall /\ ~IsError(result)) =>
           /\ RGt(result.L, Tol)
           /\ EndPointsAndCentre
           /\ PointsDefinitionUsed
    /\ (RotatedCall /\ RotatedMustFail) => IsError(result)

\* C25 as the code has it: L > 0, with L >= 1e-9 by the points definition
\* and L = length by the vector definition; the plate is constructed exactly
\* when none of the listed failures applies.
C25_RotatedPlateHasPositiveLength ==
    /\ (RotatedCall /\ ~IsError(result)) =>
           /\ RGt(result.L, Zero)
           /\ args.p2 # None => RGe(result.L, Tol)
           /\ args.p2 = None => result.L = args.length
           /\ EndPointsAndCentre
           /\ PointsDefinitionUsed
    /\ RotatedCall => (IsError(result) <=> RotatedMustFail)

\* both definitions are given and differ: the plate runs from (0, 0) to
\* (3, 4), not 5 along the vector (0, 2)
C25_Witness ==
    /\ RotatedCall /\ ~IsError(result)
    /\ args.p2 = Pt(R(3), R(4)) /\ args.vector = Pt(Zero, R(2)) /\ args.length = R(5)
    /\ result.p2 = Pt(R(3), R(4)) /\ result.L = R(5)
    /\ result.u_dir = Pt(Q(3, 5), Q(4, 5))
    /\ result.cg_x = Q(3, 2) /\ result.cg_y = R(2)

\* the vector definition with a length below the tolerance is constructed
C25_WitnessShortVector ==
    /\ RotatedCall /\ ~IsError(result)
    /\ args.p2 = None /\ args.length = HalfTol
    /\ result.L = HalfTol /\ RLt(result.L, Tol)
    /\ result.p2 = Pt(Zero, HalfTol)

\* two points exactly the tolerance apart are constructed
C25_WitnessPointsOnTolerance ==
    /\ RotatedCall /\ ~IsError(result)
    /\ args.p2 = Pt(Tol, Zero) /\ result.L = Tol

\* the vector and the length are ignored, invalid ones included, when p2 is
\* given
C25_WitnessInvalidVectorIgnored ==
    /\ RotatedCall /\ ~IsError(result)
    /\ args.p2 = Pt(R(3), R(4)) /\ args.vector = Pt(Zero, Zero) /\ args.length = R(-1)

-----------------------------------------------------------------------------
(* Undo *)

InSession == op = "session"

\* the function called last
Called(fn) == "fn" \in DOMAIN result /\ result.fn = fn

Min(a, b) == IF a <= b THEN a ELSE b

\* after m modifications in a row and then u undos in a row, u at most m and
\* at most max_undo, the list is the one that existed before the u-th most
\* recent of these modifications
UndosRevertInOrder ==
    (InSession /\ args.u >= 1 /\ args.u <= Min(args.m, max_undo)) =>
        shapes = history[Len(history) - args.u + 1]

\* an undo with an empty stack leaves the list as it is
EmptyStackUndo ==
    (CallUndoLastAction /\ session.undo_stack = << >>) =>
        /\ shapes' = shapes
        /\ session'.shapes = session.shapes

\* C26: after any sequence of add_shape, update_shape and delete_shape calls
\* an undo restores the list, shapes and order, as it was before the most
\* recent modification not yet undone, k undos in a row (k <= 10) revert the
\* last k modifications in reverse order, and an undo with an empty stack
\* leaves the list unchanged.
C26_UndoRestoresPreviousList ==
    [](UndosRevertInOrder /\ session.shapes = shapes) /\ [][EmptyStackUndo]_vars

\* eleven modifications, the last one adding the trapezoid to the empty
\* list, then two undos: the list is the one before the tenth modification
C26_Witness ==
    /\ InSession /\ args.m = max_undo + 1 /\ args.u = 2
    /\ history[max_undo + 1] = << >>
    /\ history[max_undo] = <<DefaultPlate>>
    /\ shapes = <<DefaultPlate>>
    /\ Len(session.undo_stack) = max_undo - 2

\* the first shape of a list of two is replaced and the undo brings back
\* both shapes in their order
C26_WitnessOrder ==
    /\ InSession /\ args.u = 1 /\ Called("undo_last_action")
    /\ Len(shapes) = 2 /\ shapes[1] = DefaultPlate /\ shapes[2] # DefaultPlate
    /\ history[Len(history)] = shapes

\* an undo in a new session
C26_WitnessEmptyStack ==
    /\ InSession /\ args.m = 0 /\ args.u = 1 /\ Called("undo_last_action")
    /\ shapes = << >> /\ session.undo_stack = << >>

-----------------------------------------------------------------------------
(* The undo stack *)

\* the call just made was an add, or an update or a delete with an index in
\* range
SuccessfulModification ==
    \/ result'.fn = "add_shape"
    \/ /\ result'.fn \in {"update_shape", "delete_shape"}
       /\ IndexInRange(session, result'.index)

OutOfRangeCall ==
    /\ result'.fn \in {"update_shape", "delete_shape"}
    /\ ~IndexInRange(session, result'.index)

\* one copy of the list is pushed, and the oldest one goes when the stack
\* is full
OneSnapshotPushed ==
    session'.undo_stack =
        IF Len(session.undo_stack) = max_undo
        THEN Append(Tail(session.undo_stack), shapes)
        ELSE Append(session.undo_stack, shapes)

StackStep ==
    /\ SuccessfulModification => OneSnapshotPushed
    /\ OutOfRangeCall =>
          /\ session' = session
          /\ shapes' = shapes
          /\ (result'.fn = "delete_shape" => result'.ret = False)

\* C27: the undo stack never holds more than 10 copies; a successful add,
\* update or delete pushes exactly one and drops the oldest when the stack
\* is full; an update or a delete with an index out of range changes
\* neither the list, nor the stack, nor the stored results, and the delete
\* returns False.
C27_UndoStackAtMostTen ==
    [](InSession => Len(session.undo_stack) <= max_undo) /\ [][StackStep]_vars

\* twelve modifications in a row: the stack is full and its oldest copy is
\* the list before the third modification
C27_Witness ==
    /\ InSession /\ args.m = max_undo + 2 /\ args.u = 0
    /\ Len(session.undo_stack) = max_undo
    /\ session.undo_stack[1] = history[3]
    /\ session.undo_stack[max_undo] = history[max_undo + 2]

\* a delete with an index out of range after an analysis: the stored
\* results are still there
C27_WitnessOutOfRange ==
    /\ InSession /\ Called("delete_shape") /\ result.ret = False
    /\ result.index = Len(shapes)
    /\ session.stress_results # None

-----------------------------------------------------------------------------
(* The stored results of the analysis *)

InUI == op = "ui"

\* the two stored results are both None or both there
BothOrNeither ==
    (session.stress_results = None) <=> (session.classification_results = None)

\* the stored results are the ones an analysis of the current list gives
\* for some values of the widgets
FromCurrentShapes ==
    session.stress_results # None =>
        \E inputs \in AnalysisInputs :
            /\ session.stress_results =
                   run_analysis(session, inputs).stress_results
            /\ session.classification_results =
                   run_analysis(session, inputs).classification_results
            /\ session.stress_results =
                   calculate_navier_stress(RMul(inputs.N, R(1000)),
                       RMul(inputs.M, R(1000000)), shapes,
                       calculate_section_properties(shapes, TRUE,
                           get_modular_ratio(inputs.fck, inputs.Es)))

\* a step that pushes a copy on the undo stack or pops one, that is a
\* successful add, update, delete or undo, clears both results
ModificationClears ==
    session'.undo_stack # session.undo_stack =>
        /\ session'.stress_results = None
        /\ session'.classification_results = None

\* C28: the stored stress and classification results are both absent or both
\* present, and when present they were computed from the current list of
\* shapes and its homogenized properties; every successful add, update,
\* delete and undo clears both.
C28_StoredResultsMatchShapes ==
    [](InUI => BothOrNeither /\ FromCurrentShapes) /\ [][ModificationClears]_vars

\* results of a list of two shapes with a finite neutral axis are stored
C28_Witness ==
    /\ InUI /\ Called("run_analysis") /\ Len(shapes) = 2
    /\ session.stress_results # None
    /\ IsNum(session.stress_results.y_na)
    /\ Len(session.stress_results.stresses) = 4
    /\ session.classification_results.overall_class \in 1..4

\* a run of the analysis with Es = 0 leaves no results
C28_WitnessCleared ==
    /\ InUI /\ Called("run_analysis")
    /\ session.stress_results = None /\ session.classification_results = None

-----------------------------------------------------------------------------
(* The editing mode *)

\* editing_index is None or an index of the list
EditingIndexValid ==
    \/ session.editing_index = None
    \/ session.editing_index.index \in 0..(Len(session.shapes) - 1)

\* what a run of the script can do while a shape is edited
EditingStep ==
    session.editing_index # None =>
        /\ shapes' # shapes =>
              \/ result'.fn = "submit" /\ Len(shapes') = Len(shapes)
              \/ result'.fn = "undo"
        /\ result'.fn \notin {"delete", "stack"}
        /\ result'.fn \in {"cancel", "undo"} => session'.editing_index = None
        /\ (result'.fn = "submit" /\ session'.undo_stack # session.undo_stack) =>
              session'.editing_index = None

C30_WitnessUndo ==
    /\ InUI /\ Called("undo") /\ args.steps = 3
    /\ shapes = << >> /\ session.undo_stack = << >>
    /\ session.editing_index = None

-----------------------------------------------------------------------------
(* The calculator classes and the functions *)

CalculatorsDone ==
    op \in {"properties_calculator", "stress_calculator"} /\ pc = "done"

\* C29: a freshly constructed SectionPropertiesCalculator returns from
\* calculate_properties() the five values calculate_section_properties
\* returns, and fails where it fails; a StressCalculator returns from
\* calculate_stresses() the y_na, the stresses and the error that
\* calculate_navier_stress returns.
C29_CalculatorsAgreeWithFunctions ==
    CalculatorsDone => result.object = result.function

\* a homogenized section of a plate and a trapezoid
C29_Witness ==
    /\ CalculatorsDone /\ op = "properties_calculator"
    /\ args.homogenize /\ args.modular_ratio = R(2)
    /\ Len(shapes) = 2
    /\ shapes[1].cls = "SteelPlate" /\ shapes[2].material = "concrete"
    /\ ~IsError(result.object)
    /\ RGt(result.object.inertia_x, Zero)
    /\ result.object = result.function

\* both fail in the same way: a rejected ratio, an unreadable shape
C29_WitnessFailures ==
    /\ CalculatorsDone /\ op = "properties_calculator"
    /\ IsError(result.object)
    /\ result.object = AttributeError

\* a pure axial force: both put the neutral axis at +inf
C29_WitnessStress ==
    /\ CalculatorsDone /\ op = "stress_calculator"
    /\ result.object.y_na = Inf
    /\ Len(result.object.stresses) = 4
    /\ result.object.error = "None"

\* both report the same validation error
C29_WitnessStressError ==
    /\ CalculatorsDone /\ op = "stress_calculator"
    /\ result.object.error = "zero_inertia_with_moment"
    /\ result.function.error = "zero_inertia_with_moment"

====
